---- MODULE Spec2Model ----
(***************************************************************************)
(* Model of the Huapala bilingual lyrics parser                            *)
(* (html_parser_with_validation.py), of its validator                      *)
(* (scripts/data_validation_system.py) and of the batch run                *)
(* (scripts/batch_processor.py, scripts/database_validator.py).            *)
(*                                                                         *)
(* Text is a sequence of tokens.  A token is one tag, one entity, one      *)
(* whitespace character or one word:                                       *)
(*   "<br>" "<p>" "</p>" "<font>" "</font>" "<i>"   tags                   *)
(*   "&nbsp;"            the entity, before html.unescape                  *)
(*   "nbsp"              U+00A0, what html.unescape makes of it            *)
(*   " "                 a blank                                           *)
(*   "A" "B"             words whose first character is upper case         *)
(*   "a"                 a word whose first character is lower case        *)
(*   "Hui:" "hui:" "Chorus:" "chorus:"   the marker texts                  *)
(*   "__P_BREAK__"       the placeholder re.sub puts for </p><p>           *)
(*   "__SECTION_BREAK__" the sentinel                                      *)
(***************************************************************************)
EXTENDS Integers, Sequences, FiniteSets, TLC

VARIABLES
    pc,                 \* position of the call in progress
    content,            \* _extract_lines_from_content: the cell markup
    is_hawaiian,        \* _extract_lines_from_content: the column flag
    processed_lines,    \* _extract_lines_from_content: the returned list
    hawaiian_content,   \* parse_file: markup of the width="53%" cell
    english_content,    \* parse_file: markup of the width="45%" cell
    header,             \* parse_file: what the title section of the file holds
    hawaiian_lines,     \* the Hawaiian list handed to _structure_into_sections
    english_lines,      \* the English list handed to _structure_into_sections
    sections,           \* the list _structure_into_sections returns
    song_data,          \* the record handed to validate_song
    result,             \* SongValidationResult under construction / returned
    validation_results, \* HuapalaValidator.validation_results
    history,            \* the earlier parse_file calls of the parser instance
    calls,              \* the locals of the parse calls in progress together
    batch,              \* BatchProcessor.process_directory: locals and results
    form,               \* parse_form_data: the submitted fields and the verses
    db,                 \* DatabaseValidator: attributes and the tables it writes
    admin,              \* main.py: the sessions dict, the clock, the last answer
    songs               \* main.py: verses_json and the Verses/VerseLines tables

vars == <<pc, content, is_hawaiian, processed_lines, hawaiian_content,
          english_content, header, hawaiian_lines, english_lines, sections,
          song_data, result, validation_results, history, calls, batch,
          form, db, admin, songs>>

----------------------------------------------------------------------------
(* Bounds of the model *)

MaxSegments == 3        \* <br>-separated segments of a cell, extractor runs
MaxFileSegments == 4    \* <br>-separated segments of a cell, whole-file runs
MaxLines == 3           \* lines per column handed directly to the builder
MaxIssues == 6          \* issues of a hand-built SongValidationResult
MaxHawaiian == 5        \* Hawaiian lines of a record given to validate_song
MaxEnglish == 3         \* English lines of a record given to validate_song
MaxSongLines == 6       \* Hawaiian lines of a longer song given to the builder
MaxSongEnglish == 2     \* English lines of a longer song given to the builder
MaxFiles == 3           \* parse_file calls on one parser instance
MaxCallLines == 3       \* lines per column of a file parsed next to another
MaxBatchFiles == 3      \* files matched by process_directory
MaxValidatorCalls == 3  \* validate_song calls on one validator
MaxFields == 3          \* fields of a submitted form
MaxDbCalls == 4         \* calls on one DatabaseValidator
MaxTokens == 2          \* admin logins that succeed
MaxClock == 4           \* hours the clock of the admin sessions runs
MaxVerses == 2          \* verses of a submitted song
MaxSaves == 2           \* saves of one song

----------------------------------------------------------------------------
(* Strings *)

SECTION_BREAK == <<"__SECTION_BREAK__">>

P_BREAK == "__P_BREAK__"

\* str.isspace for one character; U+00A0 is white space for str.strip and \s
IsSpace(c) == c \in {" ", "nbsp"}

\* str.lower
LowerChar(c) ==
    CASE c = "A" -> "a"
      [] c = "B" -> "b"
      [] c = "Hui:" -> "hui:"
      [] c = "Chorus:" -> "chorus:"
      [] OTHER -> c

Lower(s) == [i \in 1..Len(s) |-> LowerChar(s[i])]

\* str.islower of the first character of a word
IsLowerChar(c) == c \in {"a", "b", "hui:", "chorus:"}

RECURSIVE LStrip(_)
LStrip(s) ==
    IF s # <<>> /\ IsSpace(s[1]) THEN LStrip(Tail(s)) ELSE s

RECURSIVE RStrip(_)
RStrip(s) ==
    IF s # <<>> /\ IsSpace(s[Len(s)]) THEN RStrip(SubSeq(s, 1, Len(s) - 1)) ELSE s

\* str.strip
Strip(s) == RStrip(LStrip(s))

\* str.startswith(marker) for a one-word marker
StartsWith(s, marker) == s # <<>> /\ s[1] = marker

\* marker in s
Contains(s, marker) == \E i \in 1..Len(s) : s[i] = marker

\* html.unescape
Unescape(s) == [i \in 1..Len(s) |-> IF s[i] = "&nbsp;" THEN "nbsp" ELSE s[i]]

Tags == {"<br>", "<p>", "</p>", "<font>", "</font>", "<i>"}

\* re.sub(r'<[^>]+>', '', s)
StripTags(s) == SelectSeq(s, LAMBDA c : c \notin Tags)

\* the index of the first character at or after i that \s* does not take
RECURSIVE SkipSpace(_, _)
SkipSpace(s, i) ==
    IF i <= Len(s) /\ IsSpace(s[i]) THEN SkipSpace(s, i + 1) ELSE i

\* re.sub(r'\s+', ' ', s) after re.sub(r'\s*\n\s*', ' ', s)
RECURSIVE CollapseSpace(_)
CollapseSpace(s) ==
    IF s = <<>> THEN <<>>
    ELSE IF IsSpace(s[1])
         THEN <<" ">> \o CollapseSpace(SubSeq(s, SkipSpace(s, 2), Len(s)))
         ELSE <<s[1]>> \o CollapseSpace(Tail(s))

----------------------------------------------------------------------------
(* HuapalaHTMLParser._extract_lines_from_content *)

\* re.sub(r'<font[^>]*>Chorus:<br>\s*</font>\s*', 'Chorus:<br>', content)
RECURSIVE SubFontChorus(_)
SubFontChorus(s) ==
    IF s = <<>> THEN <<>>
    ELSE LET j == SkipSpace(s, 4)
             matched == /\ Len(s) >= 4
                        /\ s[1] = "<font>" /\ s[2] = "Chorus:" /\ s[3] = "<br>"
                        /\ j <= Len(s) /\ s[j] = "</font>"
         IN  IF matched
             THEN <<"Chorus:", "<br>">>
                  \o SubFontChorus(SubSeq(s, SkipSpace(s, j + 1), Len(s)))
             ELSE <<s[1]>> \o SubFontChorus(Tail(s))

\* re.sub(r'</font>\s*<font[^>]*>', ' ', content)
RECURSIVE SubFontJoin(_)
SubFontJoin(s) ==
    IF s = <<>> THEN <<>>
    ELSE LET j == SkipSpace(s, 2)
         IN  IF s[1] = "</font>" /\ j <= Len(s) /\ s[j] = "<font>"
             THEN <<" ">> \o SubFontJoin(SubSeq(s, j + 1, Len(s)))
             ELSE <<s[1]>> \o SubFontJoin(Tail(s))

\* re.sub(r'</?font[^>]*>', '', content)
StripFont(s) == SelectSeq(s, LAMBDA c : c \notin {"<font>", "</font>"})

\* re.sub(r'</p>\s*<p[^>]*>', '__P_BREAK__', content)
RECURSIVE SubParagraphBreak(_)
SubParagraphBreak(s) ==
    IF s = <<>> THEN <<>>
    ELSE LET j == SkipSpace(s, 2)
         IN  IF s[1] = "</p>" /\ j <= Len(s) /\ s[j] = "<p>"
             THEN <<P_BREAK>> \o SubParagraphBreak(SubSeq(s, j + 1, Len(s)))
             ELSE <<s[1]>> \o SubParagraphBreak(Tail(s))

\* re.sub(r'</?p[^>]*>', '', content)
StripParagraph(s) == SelectSeq(s, LAMBDA c : c \notin {"<p>", "</p>"})

\* re.split(r'<br\s*/?>', content)
RECURSIVE SplitBr(_)
SplitBr(s) ==
    IF \E i \in 1..Len(s) : s[i] = "<br>"
    THEN LET i == CHOOSE k \in 1..Len(s) :
                      /\ s[k] = "<br>"
                      /\ \A m \in 1..(k - 1) : s[m] # "<br>"
         IN  <<SubSeq(s, 1, i - 1)>> \o SplitBr(SubSeq(s, i + 1, Len(s)))
    ELSE <<s>>

\* the content as split into raw_segments (lines 156-174)
RawSegments(c, hawaiian) ==
    LET unfonted == IF hawaiian THEN c
                    ELSE StripFont(SubFontJoin(SubFontChorus(c)))
    IN  SplitBr(StripParagraph(SubParagraphBreak(unfonted)))

\* clean_segment of one raw segment (lines 180-181)
CleanSegment(segment) == Unescape(Strip(StripTags(segment)))

\* First pass: clean all segments and identify section breaks (lines 177-189)
RECURSIVE CleanPass(_, _)
CleanPass(raw_segments, clean_segments) ==
    IF raw_segments = <<>> THEN clean_segments
    ELSE LET segment == Head(raw_segments)
             clean_segment == CleanSegment(segment)
         IN  CleanPass(Tail(raw_segments),
                 IF Contains(segment, P_BREAK) /\ clean_segments # <<>>
                 THEN Append(clean_segments, SECTION_BREAK)
                 ELSE IF clean_segment = <<>> /\ clean_segments # <<>>
                 THEN Append(clean_segments, SECTION_BREAK)
                 ELSE IF clean_segment # <<>>
                 THEN Append(clean_segments, clean_segment)
                 ELSE clean_segments)

CleanSegments(c, hawaiian) == CleanPass(RawSegments(c, hawaiian), <<>>)

\* any(marker in next_segment.lower() for marker in ['hui:', 'chorus:'])
HitsMarker(next_segment) ==
    \/ Contains(Lower(next_segment), "hui:")
    \/ Contains(Lower(next_segment), "chorus:")

\* the inner while loop (lines 208-225): <<full_line, i>> when it ends
RECURSIVE LookAhead(_, _, _)
LookAhead(clean_segments, full_line, i) ==
    IF i > Len(clean_segments) THEN <<full_line, i>>
    ELSE LET next_segment == clean_segments[i]
         IN  IF next_segment = SECTION_BREAK THEN <<full_line, i>>
             ELSE IF HitsMarker(next_segment) THEN <<full_line, i>>
             ELSE IF next_segment # <<>> /\ IsLowerChar(next_segment[1])
             THEN LookAhead(clean_segments,
                            full_line \o <<" ">> \o next_segment, i + 1)
             ELSE <<full_line, i>>

\* Second pass: join wrapped lines using capitalization rule (lines 192-227)
RECURSIVE JoinPass(_, _, _)
JoinPass(clean_segments, i, lines) ==
    IF i > Len(clean_segments) THEN lines
    ELSE IF clean_segments[i] = SECTION_BREAK
    THEN JoinPass(clean_segments, i + 1, Append(lines, SECTION_BREAK))
    ELSE LET r == LookAhead(clean_segments, clean_segments[i], i + 1)
         IN  JoinPass(clean_segments, r[2], Append(lines, r[1]))

\* Remove trailing section breaks (lines 230-231)
RECURSIVE PopTrailingBreaks(_)
PopTrailingBreaks(lines) ==
    IF lines # <<>> /\ lines[Len(lines)] = SECTION_BREAK
    THEN PopTrailingBreaks(SubSeq(lines, 1, Len(lines) - 1))
    ELSE lines

_extract_lines_from_content(c, hawaiian) ==
    PopTrailingBreaks(JoinPass(CleanSegments(c, hawaiian), 1, <<>>))

----------------------------------------------------------------------------
(* HuapalaHTMLParser._fix_line_alignment *)

\* the 1-based index of the first line with line.strip().lower() == 'hui:',
\* 0 when there is none (hui_index + 1 of lines 239-243)
HuiIndex(lines) ==
    IF \E i \in 1..Len(lines) : Lower(Strip(lines[i])) = <<"hui:">>
    THEN CHOOSE i \in 1..Len(lines) :
             /\ Lower(Strip(lines[i])) = <<"hui:">>
             /\ \A k \in 1..(i - 1) : Lower(Strip(lines[k])) # <<"hui:">>
    ELSE 0

\* list.insert(index, x) with a 1-based index that is at most Len(lines) + 1
Insert(lines, k, x) ==
    SubSeq(lines, 1, k - 1) \o <<x>> \o SubSeq(lines, k, Len(lines))

\* english_lines after the insertions of lines 245-256
InsertChorus(hawaiian, english) ==
    LET k == HuiIndex(hawaiian)
    IN  IF k # 0 /\ k <= Len(english)
        THEN LET marked == Insert(english, k, <<"Chorus:">>)
             IN  IF /\ k + 1 <= Len(hawaiian)
                    /\ StartsWith(hawaiian[k + 1], "E ha'awi")
                    /\ k + 1 <= Len(marked)
                    /\ StartsWith(marked[k + 1], "Of your possessions")
                 THEN Insert(marked, k + 1, <<"Give, give away all">>)
                 ELSE marked
        ELSE english

\* Clean up English line wrapping (lines 259-264)
CleanEnglish(english) ==
    [i \in 1..Len(english) |-> Strip(CollapseSpace(english[i]))]

\* <<hawaiian_lines, cleaned_english>>
_fix_line_alignment(hawaiian, english) ==
    <<hawaiian, CleanEnglish(InsertChorus(hawaiian, english))>>

----------------------------------------------------------------------------
(* HuapalaHTMLParser._structure_into_sections *)

_is_chorus_marker(hawaiian, english) ==
    LET hawaiian_clean == Lower(Strip(hawaiian))
        english_clean == Lower(Strip(english))
    IN  \/ hawaiian_clean = <<"hui:">>
        \/ english_clean = <<"chorus:">>
        \/ StartsWith(english_clean, "chorus:")
        \/ StartsWith(hawaiian_clean, "hui:")

\* a section numbered by one counter for both types
_create_section_one_counter(lines, section_type, verse_count, chorus_count) ==
    LET section_number == verse_count + chorus_count + 1
        section_id == IF section_type = "verse" THEN <<"v", section_number>>
                      ELSE <<"c", section_number>>
    IN  [section_id |-> section_id,
         section_type |-> section_type,
         section_number |-> section_number,
         lines |-> [line_num \in 1..Len(lines) |->
                      [line_id |-> <<section_id, line_num>>,
                       hawaiian_text |-> lines[line_num][1],
                       english_text |-> lines[line_num][2],
                       line_number |-> line_num,
                       section_type |-> section_type,
                       section_number |-> section_number]]]

\* a section whose line ids carry the index of the line in the whole song
_create_section_song_index(lines, section_type, verse_count, chorus_count) ==
    LET section_number == IF section_type = "verse" THEN verse_count + 1
                          ELSE chorus_count + 1
        section_id == IF section_type = "verse" THEN <<"v", section_number>>
                      ELSE <<"c", section_number>>
    IN  [section_id |-> section_id,
         section_type |-> section_type,
         section_number |-> section_number,
         lines |-> [line_num \in 1..Len(lines) |->
                      [line_id |-> <<section_id, lines[line_num][3]>>,
                       hawaiian_text |-> lines[line_num][1],
                       english_text |-> lines[line_num][2],
                       line_number |-> lines[line_num][3],
                       section_type |-> section_type,
                       section_number |-> section_number]]]

\* section_id f"v{n}" / f"c{n}" is <<"v", n>> / <<"c", n>>;
\* line_id f"{section_id}.{line_num}" is <<section_id, line_num>>
_create_section(lines, section_type, verse_count, chorus_count) ==
    LET section_number == IF section_type = "verse" THEN verse_count + 1
                          ELSE chorus_count + 1
        section_id == IF section_type = "verse" THEN <<"v", section_number>>
                      ELSE <<"c", section_number>>
    IN  [section_id |-> section_id,
         section_type |-> section_type,
         section_number |-> section_number,
         lines |-> [line_num \in 1..Len(lines) |->
                      [line_id |-> <<section_id, line_num>>,
                       hawaiian_text |-> lines[line_num][1],
                       english_text |-> lines[line_num][2],
                       line_number |-> line_num,
                       section_type |-> section_type,
                       section_number |-> section_number]]]

\* Create paired lines (handling mismatches) (lines 276-282)
Max(a, b) == IF a >= b THEN a ELSE b

\* a pairing that stops at the shorter list
PairLines_shorter(hawaiian, english) ==
    [i \in 1..(IF Len(hawaiian) <= Len(english) THEN Len(hawaiian)
               ELSE Len(english)) |->
        <<hawaiian[i], english[i]>>]

PairLines(hawaiian, english) ==
    [i \in 1..Max(Len(hawaiian), Len(english)) |->
        <<IF i <= Len(hawaiian) THEN hawaiian[i] ELSE <<>>,
          IF i <= Len(english) THEN english[i] ELSE <<>> >>]

\* an iteration in which a sentinel leaves the section type as it is
SectionStep_keeps_type(paired_lines, i, st) ==
    LET hawaiian == paired_lines[i][1]
        english == paired_lines[i][2]
    IN  IF hawaiian = SECTION_BREAK \/ english = SECTION_BREAK
        THEN IF st.current_section_lines # <<>>
             THEN [sections |-> Append(st.sections,
                      _create_section(st.current_section_lines,
                          st.current_section_type,
                          st.verse_count, st.chorus_count)),
                   verse_count |->
                      IF st.current_section_type = "verse"
                      THEN st.verse_count + 1 ELSE st.verse_count,
                   chorus_count |->
                      IF st.current_section_type = "verse"
                      THEN st.chorus_count ELSE st.chorus_count + 1,
                   current_section_lines |-> <<>>,
                   current_section_type |-> st.current_section_type]
             ELSE st
        ELSE IF _is_chorus_marker(hawaiian, english)
        THEN [st EXCEPT !.current_section_type = "chorus"]
        ELSE [st EXCEPT !.current_section_lines =
                 Append(@, <<hawaiian, english, i>>)]

\* the locals of _structure_into_sections before the loop (lines 271-285)
InitialLocals ==
    [sections |-> <<>>, verse_count |-> 0, chorus_count |-> 0,
     current_section_lines |-> <<>>, current_section_type |-> "verse"]

\* one iteration of the for loop of lines 287-312, on pair i; st holds the
\* locals
SectionStep(paired_lines, i, st) ==
    LET hawaiian == paired_lines[i][1]
        english == paired_lines[i][2]
    IN  IF hawaiian = SECTION_BREAK \/ english = SECTION_BREAK
        THEN IF st.current_section_lines # <<>>
             THEN [sections |-> Append(st.sections,
                      _create_section(st.current_section_lines,
                          st.current_section_type,
                          st.verse_count, st.chorus_count)),
                   verse_count |->
                      IF st.current_section_type = "verse"
                      THEN st.verse_count + 1 ELSE st.verse_count,
                   chorus_count |->
                      IF st.current_section_type = "verse"
                      THEN st.chorus_count ELSE st.chorus_count + 1,
                   current_section_lines |-> <<>>,
                   current_section_type |-> "verse"]
             ELSE [st EXCEPT !.current_section_type = "verse"]
        ELSE IF _is_chorus_marker(hawaiian, english)
        THEN [st EXCEPT !.current_section_type = "chorus"]
        ELSE [st EXCEPT !.current_section_lines =
                 Append(@, <<hawaiian, english, i>>)]

\* the for loop of lines 287-312 from pair i on
RECURSIVE SectionLoop(_, _, _)
SectionLoop(paired_lines, i, st) ==
    IF i > Len(paired_lines) THEN st
    ELSE SectionLoop(paired_lines, i + 1, SectionStep(paired_lines, i, st))

\* Finish final section (lines 314-318)
FinishFinalSection(st) ==
    IF st.current_section_lines # <<>>
    THEN Append(st.sections,
             _create_section(st.current_section_lines,
                 st.current_section_type, st.verse_count, st.chorus_count))
    ELSE st.sections

\* a builder whose verse counter lives on the parser instance
_structure_into_sections_instance_counter(hawaiian, english) ==
    LET st == SectionLoop(PairLines(hawaiian, english), 1,
                  [sections |-> <<>>, verse_count |-> Len(validation_results),
                   chorus_count |-> 0,
                   current_section_lines |-> <<>>,
                   current_section_type |-> "verse"])
    IN  IF st.current_section_lines # <<>>
        THEN Append(st.sections,
                 _create_section(st.current_section_lines,
                     st.current_section_type, st.verse_count, st.chorus_count))
        ELSE st.sections

\* a builder that closes the section in progress without looking at it
_structure_into_sections_always_close(hawaiian, english) ==
    LET st == SectionLoop(PairLines(hawaiian, english), 1,
                  [sections |-> <<>>, verse_count |-> 0, chorus_count |-> 0,
                   current_section_lines |-> <<>>,
                   current_section_type |-> "verse"])
    IN  Append(st.sections,
            _create_section(st.current_section_lines,
                st.current_section_type, st.verse_count, st.chorus_count))

_structure_into_sections(hawaiian, english) ==
    FinishFinalSection(
        SectionLoop(PairLines(hawaiian, english), 1, InitialLocals))

----------------------------------------------------------------------------
(* HuapalaValidator (scripts/data_validation_system.py) *)

\* Python's None where a string is expected
None == <<"<None>">>

\* dict.get(key, default)
Get(d, key, default) == IF key \in DOMAIN d THEN d[key] ELSE default

\* ValidationIssue, without its free-text fields and its timestamp
Issue(type, sev) == [issue_type |-> type, severity |-> sev]

IssueSeverity == {"low", "medium", "high", "critical"}

\* SongValidationResult as validate_song constructs it (lines 129-136)
NewResult ==
    [hawaiian_lines |-> <<>>, english_lines |-> <<>>,
     composer |-> None, lyricist |-> None, translator |-> None,
     data_quality_score |-> 0, manual_review_required |-> FALSE,
     processing_status |-> "pending",
     validation_issues |-> <<>>, stray_text |-> <<>>]

\* .strip() is called on None: AttributeError
AttributionRaises(data) ==
    \/ Get(data, "composer", <<>>) = None
    \/ Get(data, "lyricist", <<>>) = None
    \/ Get(data, "translator", <<>>) = None

\* the attribution checks with a missing lyricist rated high
_validate_attribution_lyricist_high(data, r) ==
    LET composer == Strip(Get(data, "composer", <<>>))
        lyricist == Strip(Get(data, "lyricist", <<>>))
        translator == Strip(Get(data, "translator", <<>>))
        r1 == IF composer = <<>>
              THEN [r EXCEPT !.validation_issues =
                       Append(@, Issue("no_composer", "high"))]
              ELSE [r EXCEPT !.composer = composer]
        r2 == IF lyricist = <<>>
              THEN [r1 EXCEPT !.validation_issues =
                       Append(@, Issue("no_lyricist", "high"))]
              ELSE [r1 EXCEPT !.lyricist = lyricist]
    IN  IF translator = <<>> /\ Get(data, "has_english_translation", FALSE)
        THEN [r2 EXCEPT !.validation_issues =
                 Append(@, Issue("no_translator", "medium"))]
        ELSE [r2 EXCEPT !.translator = translator]

_validate_attribution(data, r) ==
    LET composer == Strip(Get(data, "composer", <<>>))
        lyricist == Strip(Get(data, "lyricist", <<>>))
        translator == Strip(Get(data, "translator", <<>>))
        r1 == IF composer = <<>>
              THEN [r EXCEPT !.validation_issues =
                       Append(@, Issue("no_composer", "high"))]
              ELSE [r EXCEPT !.composer = composer]
        r2 == IF lyricist = <<>>
              THEN [r1 EXCEPT !.validation_issues =
                       Append(@, Issue("no_lyricist", "medium"))]
              ELSE [r1 EXCEPT !.lyricist = lyricist]
    IN  IF translator = <<>> /\ Get(data, "has_english_translation", FALSE)
        THEN [r2 EXCEPT !.validation_issues =
                 Append(@, Issue("no_translator", "medium"))]
        ELSE [r2 EXCEPT !.translator = translator]

\* the line checks with the mismatch seen only when Hawaiian is the longer side
_validate_line_structure_longer(data, r) ==
    LET hawaiian == Get(data, "hawaiian_lines", <<>>)
        english == Get(data, "english_lines", <<>>)
        r1 == [r EXCEPT !.hawaiian_lines = hawaiian, !.english_lines = english]
        r2 == IF Len(hawaiian) > Len(english)
              THEN [r1 EXCEPT !.validation_issues =
                       Append(@, Issue("line_count_mismatch", "high"))]
              ELSE r1
        r3 == IF hawaiian # <<>> /\ english = <<>>
              THEN [r2 EXCEPT !.validation_issues =
                       Append(@, Issue("missing_translation", "medium"))]
              ELSE r2
    IN  IF ~Get(data, "has_verse_structure", FALSE)
        THEN [r3 EXCEPT !.validation_issues =
                 Append(@, Issue("no_verse_chorus_structure", "medium"))]
        ELSE r3

_validate_line_structure(data, r) ==
    LET hawaiian == Get(data, "hawaiian_lines", <<>>)
        english == Get(data, "english_lines", <<>>)
        r1 == [r EXCEPT !.hawaiian_lines = hawaiian, !.english_lines = english]
        r2 == IF Len(hawaiian) # Len(english)
              THEN [r1 EXCEPT !.validation_issues =
                       Append(@, Issue("line_count_mismatch", "high"))]
              ELSE r1
        r3 == IF hawaiian # <<>> /\ english = <<>>
              THEN [r2 EXCEPT !.validation_issues =
                       Append(@, Issue("missing_translation", "medium"))]
              ELSE r2
    IN  IF ~Get(data, "has_verse_structure", FALSE)
        THEN [r3 EXCEPT !.validation_issues =
                 Append(@, Issue("no_verse_chorus_structure", "medium"))]
        ELSE r3

\* any(ord(c) > 65535 for c in text): "U+1F33A" is a word outside the BMP
HasNonBMP(lines) ==
    \E i \in 1..Len(lines) : Contains(lines[i], "U+1F33A")

_validate_content_quality(data, r) ==
    LET stray_text == Get(data, "stray_text", <<>>)
        r1 == IF stray_text # <<>>
              THEN [r EXCEPT !.stray_text = stray_text,
                             !.validation_issues =
                                 Append(@, Issue("unidentifiable_text", "medium"))]
              ELSE r
    IN  IF HasNonBMP(r1.hawaiian_lines \o r1.english_lines)
        THEN [r1 EXCEPT !.validation_issues =
                 Append(@, Issue("encoding_issues", "low"))]
        ELSE r1

\* the deduction of one issue (lines 263-270)
Penalty(severity) ==
    CASE severity = "critical" -> 25
      [] severity = "high" -> 15
      [] severity = "medium" -> 8
      [] severity = "low" -> 3
      [] OTHER -> 0

\* the for loop of lines 262-270
RECURSIVE ScoreLoop(_, _)
ScoreLoop(issues, score) ==
    IF issues = <<>> THEN score
    ELSE ScoreLoop(Tail(issues), score - Penalty(Head(issues).severity))

\* the score without its floor
_calculate_quality_score_unfloored(r) == ScoreLoop(r.validation_issues, 100)

_calculate_quality_score(r) == Max(0, ScoreLoop(r.validation_issues, 100))

\* the flag without the stray text trigger
_requires_manual_review_no_stray(r) ==
    \/ \E i \in 1..Len(r.validation_issues) :
           r.validation_issues[i].severity \in {"critical", "high"}
    \/ r.data_quality_score < 70
    \/ Len(r.validation_issues) > 5

_requires_manual_review(r) ==
    LET critical_issues ==
            SelectSeq(r.validation_issues,
                      LAMBDA i : i.severity \in {"critical", "high"})
    IN  \/ Len(critical_issues) > 0
        \/ r.data_quality_score < 70
        \/ Len(r.stray_text) > 0
        \/ Len(r.validation_issues) > 5

\* the result validate_song returns when nothing raises (lines 129-151)
validate_song(data) ==
    LET r1 == _validate_attribution(data, NewResult)
        r2 == _validate_line_structure(data, r1)
        r3 == _validate_content_quality(data, r2)
        r4 == [r3 EXCEPT !.data_quality_score = _calculate_quality_score(r3)]
    IN  [r4 EXCEPT !.manual_review_required = _requires_manual_review(r4)]

----------------------------------------------------------------------------
(* HuapalaHTMLParser.parse_file *)

\* what _extract_metadata finds in the title section (lines 92-117)
_extract_metadata(title_section) ==
    CASE title_section = "title_and_composer" ->
             [title |-> <<"A">>, composer |-> <<"B">>, translator |-> <<>>,
              stray_text |-> <<>>]
      [] title_section = "title_only" ->
             [title |-> <<"A">>, composer |-> <<>>, translator |-> <<>>,
              stray_text |->
                  << <<"Could not parse composer from title section">> >>]
      [] OTHER ->
             [title |-> <<>>, composer |-> <<>>, translator |-> <<>>,
              stray_text |-> <<>>]

\* the texts of one language over all sections, in order (lines 369-375)
RECURSIVE Flatten(_, _)
Flatten(secs, field) ==
    IF secs = <<>> THEN <<>>
    ELSE [i \in 1..Len(Head(secs).lines) |-> Head(secs).lines[i][field]]
         \o Flatten(Tail(secs), field)

\* any(line.strip() for line in lines)
AnyText(lines) == \E i \in 1..Len(lines) : Strip(lines[i]) # <<>>

_prepare_validation_data(metadata, secs) ==
    LET all_hawaiian_lines == Flatten(secs, "hawaiian_text")
        all_english_lines == Flatten(secs, "english_text")
    IN  [composer |-> metadata.composer,
         lyricist |-> Get(metadata, "lyricist", <<>>),
         translator |-> metadata.translator,
         hawaiian_lines |-> all_hawaiian_lines,
         english_lines |-> all_english_lines,
         has_verse_structure |-> Len(secs) > 0,
         has_english_translation |->
             all_english_lines # <<>> /\ AnyText(all_english_lines),
         stray_text |-> metadata.stray_text]

\* _parse_lyrics_columns: both cells through the extractor (lines 147-151)
_parse_lyrics_columns(hawaiian_cell, english_cell) ==
    <<_extract_lines_from_content(hawaiian_cell, TRUE),
      _extract_lines_from_content(english_cell, FALSE)>>

----------------------------------------------------------------------------
(* FormProcessingModel.parse_form_data (models/song_models.py) *)

\* A field name is a sequence of tokens, "_" among them.
\* field_name.split('_'): the tokens between the "_"
RECURSIVE SplitUnderscore(_, _)
SplitUnderscore(name, parts) ==
    IF name = <<>> THEN parts
    ELSE IF Head(name) = "_"
    THEN SplitUnderscore(Tail(name), Append(parts, <<>>))
    ELSE SplitUnderscore(Tail(name),
             [parts EXCEPT ![Len(parts)] = Append(@, Head(name))])

\* every part of the names of the model is one token
Split(name) ==
    LET parts == SplitUnderscore(name, << <<>> >>)
    IN  [i \in 1..Len(parts) |->
            IF Len(parts[i]) = 1 THEN parts[i][1] ELSE parts[i]]

\* the digit strings of the model: int(text) raises ValueError on any other
IsInt(text) == text \in {"1", "2", "3"}

\* int(text) of a digit string
IntOf(text) ==
    CASE text = "1" -> 1
      [] text = "2" -> 2
      [] text = "3" -> 3

\* the index of the first part equal to 'line', 0 for line_index None
\* (lines 156-160)
LineIndex(parts) ==
    IF \E i \in 1..Len(parts) : parts[i] = "line"
    THEN CHOOSE i \in 1..Len(parts) :
             /\ parts[i] = "line"
             /\ \A k \in 1..(i - 1) : parts[k] # "line"
    ELSE 0

\* the position of a key in a list of <<key, value>> pairs, 0 when absent
KeyIndex(pairs, key) ==
    IF \E i \in 1..Len(pairs) : pairs[i][1] = key
    THEN CHOOSE i \in 1..Len(pairs) : pairs[i][1] = key
    ELSE 0

\* d[key] = value on a dict kept as the list of its items in insertion order
SetItem(pairs, key, value) ==
    IF KeyIndex(pairs, key) = 0 THEN Append(pairs, <<key, value>>)
    ELSE [pairs EXCEPT ![KeyIndex(pairs, key)] = <<key, value>>]

\* d.get(key, default) on the same
GetItem(pairs, key, default) ==
    IF KeyIndex(pairs, key) = 0 THEN default
    ELSE pairs[KeyIndex(pairs, key)][2]

\* verses_data[verse_id][line_num][text_type] = value (lines 180-185)
PutLine(verses_data, verse_id, line_num, text_type, value) ==
    LET verse_lines == GetItem(verses_data, verse_id, <<>>)
        line_data == GetItem(verse_lines, line_num, <<>>)
    IN  SetItem(verses_data, verse_id,
            SetItem(verse_lines, line_num,
                SetItem(line_data, text_type, value)))

\* the body of the loop of lines 139-202 for one field whose name starts
\* with 'verse_'
VerseField(verses_data, field_name, value) ==
    LET parts == Split(field_name)
        line_index == LineIndex(parts)
    IN  IF Len(parts) = 3 /\ parts[3] = "label" THEN verses_data
        ELSE IF Len(parts) >= 5
        THEN IF line_index = 0 \/ line_index + 1 > Len(parts)
             THEN verses_data
             ELSE LET verse_id == parts[2]
                      line_num == parts[line_index + 1]
                      text_type == IF line_index + 2 <= Len(parts)
                                   THEN parts[line_index + 2] ELSE None
                  IN  IF text_type \notin {"hawaiian", "english"}
                      THEN verses_data
                      ELSE IF ~IsInt(line_num) THEN verses_data
                      ELSE PutLine(verses_data, verse_id, line_num,
                                   text_type, value)
        ELSE verses_data

\* the loop of lines 139-202 over form_data.items()
RECURSIVE VersesData(_, _)
VersesData(form_data, verses_data) ==
    IF form_data = <<>> THEN verses_data
    ELSE VersesData(Tail(form_data),
             IF Head(form_data)[1][1] = "verse"
                /\ Len(Head(form_data)[1]) >= 2
                /\ Head(form_data)[1][2] = "_"
             THEN VerseField(verses_data, Head(form_data)[1],
                             Head(form_data)[2])
             ELSE verses_data)

\* list.sort(key=...): a stable sort of a list of records by a field
RECURSIVE SortedBy(_, _)
SortedBy(list, field) ==
    IF list = <<>> THEN <<>>
    ELSE LET rest == SortedBy(SubSeq(list, 1, Len(list) - 1), field)
             x == list[Len(list)]
             before == SelectSeq(rest, LAMBDA y : y[field] <= x[field])
             after == SelectSeq(rest, LAMBDA y : y[field] > x[field])
         IN  before \o <<x>> \o after

\* verse_num of lines 208-213 for the verse ids of the model
VerseNum(verse_id) ==
    CASE verse_id = "v1" -> 1
      [] verse_id = "v2" -> 2
      [] OTHER -> 1

\* the LineModel list of one verse (lines 215-234); the id
\* f"{verse_id}.{line_number}" is <<verse_id, line_number>>
LineModels(verse_id, verse_lines) ==
    SortedBy([i \in 1..Len(verse_lines) |->
                 [id |-> <<verse_id, IntOf(verse_lines[i][1])>>,
                  line_number |-> IntOf(verse_lines[i][1]),
                  hawaiian_text |-> GetItem(verse_lines[i][2], "hawaiian", <<>>),
                  english_text |-> GetItem(verse_lines[i][2], "english", <<>>)]],
             "line_number")

\* the verses of the LyricsModel (lines 204-251)
parse_form_data(form_data) ==
    LET verses_data == VersesData(form_data, <<>>)
        verses == SortedBy([i \in 1..Len(verses_data) |->
                      [id |-> verses_data[i][1],
                       type |-> "verse",
                       number |-> VerseNum(verses_data[i][1]),
                       order |-> VerseNum(verses_data[i][1]),
                       lines |-> LineModels(verses_data[i][1],
                                            verses_data[i][2])]],
                      "number")
    IN  [i \in 1..Len(verses) |-> [verses[i] EXCEPT !.order = i]]

----------------------------------------------------------------------------
(* Inputs *)

SeqsUpTo(S, n) == UNION {[1..k -> S] : k \in 0..n}

\* segments put back together with <br> between them
RECURSIVE JoinBr(_)
JoinBr(segs) ==
    IF segs = <<>> THEN <<>>
    ELSE IF Len(segs) = 1 THEN segs[1]
    ELSE segs[1] \o <<"<br>">> \o JoinBr(Tail(segs))

Cells(shapes, n) == {JoinBr(segs) : segs \in SeqsUpTo(shapes, n)}

\* segments of a cell handed to the extractor alone
SegmentShapes ==
    {<<>>, <<"A">>, <<"a">>, <<"Hui:">>, <<"a", "hui:">>, <<"&nbsp;">>,
     <<"A", "</p>", "<p>", "B">>, <<"<font>", "Chorus:">>,
     <<"</font>", "B", "</font>", " ", "<font>", "a">>}

\* segments of the cells of a whole file
HawaiianShapes == {<<>>, <<"A">>, <<"Hui:">>, <<"A", "</p>", "<p>", "A">>}

EnglishShapes == {<<>>, <<"B">>, <<"Chorus:">>, <<"&nbsp;">>}

\* lines handed to _structure_into_sections directly
HawaiianLinePool == {<<"A">>, <<"B">>, <<"Hui:">>, SECTION_BREAK}

EnglishLinePool == {<<"a">>, <<"b">>, <<"Chorus:">>, SECTION_BREAK}

\* the English column of a longer song
SongEnglishPool == {<<"a">>, <<"Chorus:">>, SECTION_BREAK}

\* a file without the lyrics table
NoFile == [title_section |-> "none", has_table |-> FALSE]

\* the files one parser instance is given one after the other
SessionHawaiianCells ==
    {<<>>, <<"A">>, <<"A", "<br>", "<br>", "Hui:", "<br>", "A">>}

SessionEnglishCells ==
    {<<>>, <<"B">>, <<"B", "<br>", "<br>", "Chorus:", "<br>", "B">>}

SessionFiles ==
    {[header |-> NoFile, hawaiian_content |-> <<>>, english_content |-> <<>>]}
    \cup
    {[header |-> [title_section |-> t, has_table |-> TRUE],
      hawaiian_content |-> h, english_content |-> e] :
        t \in {"title_and_composer", "title_only"},
        h \in SessionHawaiianCells, e \in SessionEnglishCells}

\* the columns of the files of two parse calls in progress together: the
\* English column is the Hawaiian one translated line by line
CallLinePool == {<<"A">>, <<"Hui:">>, SECTION_BREAK}

Translation(hawaiian) ==
    [i \in 1..Len(hawaiian) |->
        IF hawaiian[i] = <<"A">> THEN <<"a">>
        ELSE IF hawaiian[i] = <<"Hui:">> THEN <<"Chorus:">>
        ELSE SECTION_BREAK]

CallIds == {1, 2}

\* the files of a directory: what the file holds, and what the database
\* does when the song is looked up (find_or_create_canonical_mele) and stored
\* (store_validation_result)
BatchFiles ==
    {[file |-> f, db |-> d] :
        f \in {[header |-> NoFile, hawaiian_content |-> <<>>,
                english_content |-> <<>>],
               [header |-> [title_section |-> "title_and_composer",
                            has_table |-> TRUE],
                hawaiian_content |-> <<"A">>, english_content |-> <<"B">>]},
        d \in {"ok", "mele_raises", "store_raises"}}

\* the records one validator is given one after the other
ValidatorRecords ==
    {[composer |-> c, lyricist |-> <<"A">>, translator |-> t,
      hawaiian_lines |-> h, english_lines |-> << <<"B">> >>,
      has_verse_structure |-> TRUE, has_english_translation |-> TRUE,
      stray_text |-> <<>>] :
        c \in {<<>>, <<"A">>},
        t \in {None, <<"A">>},
        h \in {<< <<"A">> >>, << <<"A">>, <<"A">> >>}}

\* a list of n equal lines
Repeat(line, n) == [i \in 1..n |-> line]

\* records handed to validate_song directly
SongRecords ==
    {[composer |-> c, lyricist |-> l, translator |-> t,
      hawaiian_lines |-> h, english_lines |-> e,
      has_verse_structure |-> v, has_english_translation |-> x,
      stray_text |-> s] :
        c \in {<<>>, <<" ">>, <<"A">>},
        l \in {<<>>, <<"A">>},
        t \in {None, <<>>, <<"A">>},
        h \in {Repeat(line, n) :
                  line \in {<<"A">>, <<"U+1F33A">>}, n \in 0..MaxHawaiian},
        e \in {Repeat(line, n) : line \in {<<"B">>, <<>>}, n \in 0..MaxEnglish},
        v \in BOOLEAN, x \in BOOLEAN,
        s \in {<<>>, << <<"A">> >>}}

\* SongValidationResult objects built by hand
BuiltResults ==
    {[NewResult EXCEPT !.validation_issues = issues, !.stray_text = s,
                       !.data_quality_score = q] :
        issues \in {[i \in 1..Len(sev) |-> Issue("unusual_formatting", sev[i])] :
                       sev \in SeqsUpTo(IssueSeverity, MaxIssues)},
        s \in {<<>>, << <<"A">> >>},
        q \in {0, 69, 70, 95}}

ExtractorIdle == content = <<>> /\ is_hawaiian = TRUE /\ processed_lines = <<>>

FileIdle == hawaiian_content = <<>> /\ english_content = <<>> /\ header = NoFile

BuilderIdle == hawaiian_lines = <<>> /\ english_lines = <<>> /\ sections = <<>>

ValidatorIdle == song_data = <<>> /\ result = NewResult /\ validation_results = <<>>

\* no batch run
NoBatch == [pc |-> "idle", files |-> <<>>, attempts |-> <<>>, next_file |-> 1,
            total_files |-> 0, successful |-> 0, failed |-> 0,
            failed_files |-> <<>>, validated |-> <<>>, stored |-> <<>>]

\* no form, no database validator, no admin request, no song being saved
NoWeb == form = <<>> /\ db = <<>> /\ admin = <<>> /\ songs = <<>>

\* one call on a fresh parser, outside any batch
SingleCall == history = <<>> /\ calls = <<>> /\ batch = NoBatch

----------------------------------------------------------------------------
(* parse_file on one file *)

Init ==
    /\ pc = "parse_file"
    /\ header \in [title_section : {"title_and_composer", "title_only", "none"},
                   has_table : BOOLEAN]
    /\ hawaiian_content \in
           IF header.has_table THEN Cells(HawaiianShapes, MaxFileSegments)
           ELSE {<<>>}
    /\ english_content \in
           IF header.has_table THEN Cells(EnglishShapes, MaxFileSegments)
           ELSE {<<>>}
    /\ ExtractorIdle /\ BuilderIdle /\ ValidatorIdle
    /\ SingleCall
    /\ NoWeb

\* parse_file returns <<parsed_song, validation_result>>
ParseFile ==
    /\ pc = "parse_file"
    /\ header.has_table
    /\ \E metadata \in {_extract_metadata(header.title_section)},
          columns \in {_parse_lyrics_columns(hawaiian_content, english_content)} :
         \E fixed \in {_fix_line_alignment(columns[1], columns[2])} :
           \E secs \in {_structure_into_sections(fixed[1], fixed[2])} :
             \E data \in {_prepare_validation_data(metadata, secs)} :
               /\ ~AttributionRaises(data)
               /\ hawaiian_lines' = fixed[1]
               /\ english_lines' = fixed[2]
               /\ sections' = secs
               /\ song_data' = data
               /\ result' = validate_song(data)
               /\ validation_results' = Append(validation_results, result')
    /\ pc' = "returned"
    /\ UNCHANGED <<content, is_hawaiian, processed_lines, hawaiian_content,
                   english_content, header>>
    /\ UNCHANGED <<history, calls, batch>>
    /\ UNCHANGED <<form, db, admin, songs>>

\* a failed call that leaves an entry in the validator's results
ParseFileRaises_recorded ==
    /\ pc = "parse_file"
    /\ ~header.has_table
    /\ pc' = "raised"
    /\ validation_results' = Append(validation_results, NewResult)
    /\ UNCHANGED <<content, is_hawaiian, processed_lines, hawaiian_content,
                   english_content, header, hawaiian_lines, english_lines,
                   sections, song_data, result>>
    /\ UNCHANGED <<history, calls, batch>>
    /\ UNCHANGED <<form, db, admin, songs>>

\* _extract_table_content raises ValueError (line 128)
ParseFileRaises ==
    /\ pc = "parse_file"
    /\ ~header.has_table
    /\ pc' = "raised"
    /\ UNCHANGED <<content, is_hawaiian, processed_lines, hawaiian_content,
                   english_content, header, hawaiian_lines, english_lines,
                   sections, song_data, result, validation_results>>
    /\ UNCHANGED <<history, calls, batch>>
    /\ UNCHANGED <<form, db, admin, songs>>

Next == ParseFile \/ ParseFileRaises

Spec == Init /\ [][Next]_vars

----------------------------------------------------------------------------
(* parse_file called again and again on one parser instance *)

InitSession ==
    /\ pc = "parse_file"
    /\ \E f \in SessionFiles :
          /\ header = f.header
          /\ hawaiian_content = f.hawaiian_content
          /\ english_content = f.english_content
    /\ ExtractorIdle /\ BuilderIdle /\ ValidatorIdle
    /\ SingleCall
    /\ NoWeb

\* what the call that just ended was given and what it gave back
EndedCall ==
    [header |-> header, hawaiian_content |-> hawaiian_content,
     english_content |-> english_content, outcome |-> pc,
     hawaiian_lines |-> hawaiian_lines, english_lines |-> english_lines,
     sections |-> sections, result |-> result]

\* the caller calls parse_file on the next file: the locals of the call
\* before are gone, self.validator is the same object
OpenNextFile ==
    /\ pc \in {"returned", "raised"}
    /\ Len(history) + 1 < MaxFiles
    /\ history' = Append(history, EndedCall)
    /\ \E f \in SessionFiles :
          /\ header' = f.header
          /\ hawaiian_content' = f.hawaiian_content
          /\ english_content' = f.english_content
    /\ hawaiian_lines' = <<>>
    /\ english_lines' = <<>>
    /\ sections' = <<>>
    /\ song_data' = <<>>
    /\ result' = NewResult
    /\ pc' = "parse_file"
    /\ UNCHANGED <<content, is_hawaiian, processed_lines, validation_results,
                   calls, batch>>
    /\ UNCHANGED <<form, db, admin, songs>>

NextSession == ParseFile \/ ParseFileRaises \/ OpenNextFile

SpecSession == InitSession /\ [][NextSession]_vars

----------------------------------------------------------------------------
(* two parse calls on one parser instance, their steps interleaved *)

\* a call that has reached _structure_into_sections (line 73): its arguments
\* and its locals before the loop
NewCall(hawaiian) ==
    [pc |-> "loop",
     hawaiian_lines |-> hawaiian,
     english_lines |-> Translation(hawaiian),
     paired_lines |-> PairLines(hawaiian, Translation(hawaiian)),
     i |-> 1,
     st |-> InitialLocals,
     sections |-> <<>>]

InitCalls ==
    /\ pc = "calls"
    /\ calls \in [CallIds -> {NewCall(hawaiian) :
                                hawaiian \in SeqsUpTo(CallLinePool, MaxCallLines)}]
    /\ ExtractorIdle /\ FileIdle /\ BuilderIdle /\ ValidatorIdle
    /\ history = <<>> /\ batch = NoBatch
    /\ NoWeb

\* locals that are the same objects for every call
CallLocals_shared_counters(c) ==
    [calls[c].st EXCEPT !.verse_count = calls[1].st.verse_count,
                        !.chorus_count = calls[1].st.chorus_count]

\* sections, verse_count, chorus_count, current_section_lines and
\* current_section_type are locals of the frame of call c (lines 271-285)
CallLocals(c) == calls[c].st

\* call c runs one iteration of the loop of lines 287-312
LoopStep(c) ==
    /\ calls[c].pc = "loop"
    /\ calls[c].i <= Len(calls[c].paired_lines)
    /\ calls' = [calls EXCEPT
                    ![c].st = SectionStep(calls[c].paired_lines, calls[c].i,
                                          CallLocals(c)),
                    ![c].i = @ + 1]
    /\ UNCHANGED <<pc, content, is_hawaiian, processed_lines, hawaiian_content,
                   english_content, header, hawaiian_lines, english_lines,
                   sections, song_data, result, validation_results, history,
                   batch>>
    /\ UNCHANGED <<form, db, admin, songs>>

\* call c leaves the loop and finishes the final section (lines 314-318)
FinishCall(c) ==
    /\ calls[c].pc = "loop"
    /\ calls[c].i > Len(calls[c].paired_lines)
    /\ calls' = [calls EXCEPT
                    ![c].sections = FinishFinalSection(CallLocals(c)),
                    ![c].pc = "validate"]
    /\ UNCHANGED <<pc, content, is_hawaiian, processed_lines, hawaiian_content,
                   english_content, header, hawaiian_lines, english_lines,
                   sections, song_data, result, validation_results, history,
                   batch>>
    /\ UNCHANGED <<form, db, admin, songs>>

\* call c validates its song (lines 87-88): validate_song appends to the
\* list of the validator both calls share
ValidateCall(c) ==
    /\ calls[c].pc = "validate"
    /\ validation_results' =
           Append(validation_results,
               validate_song(
                   _prepare_validation_data(
                       _extract_metadata("title_and_composer"),
                       calls[c].sections)))
    /\ calls' = [calls EXCEPT ![c].pc = "returned"]
    /\ UNCHANGED <<pc, content, is_hawaiian, processed_lines, hawaiian_content,
                   english_content, header, hawaiian_lines, english_lines,
                   sections, song_data, result, history, batch>>
    /\ UNCHANGED <<form, db, admin, songs>>

NextCalls == \E c \in CallIds : LoopStep(c) \/ FinishCall(c) \/ ValidateCall(c)

SpecCalls == InitCalls /\ [][NextCalls]_vars

----------------------------------------------------------------------------
(* BatchProcessor.process_directory on the files of one directory *)

\* the validation result parse_file returns for a file that has the table
ParsedResult(f) ==
    LET columns == _parse_lyrics_columns(f.hawaiian_content, f.english_content)
        fixed == _fix_line_alignment(columns[1], columns[2])
    IN  validate_song(
            _prepare_validation_data(
                _extract_metadata(f.header.title_section),
                _structure_into_sections(fixed[1], fixed[2])))

\* process_file returns False: an exception was raised inside its try block
\* by parse_file, find_or_create_canonical_mele or validate_and_store_song
FileFails(f) == ~f.file.header.has_table \/ f.db # "ok"

InitBatch ==
    /\ pc = "process_directory"
    /\ \E files \in SeqsUpTo(BatchFiles, MaxBatchFiles) :
          batch = [NoBatch EXCEPT !.pc = "start_session", !.files = files,
                                  !.attempts = [i \in 1..Len(files) |-> 0]]
    /\ ExtractorIdle /\ FileIdle /\ BuilderIdle /\ ValidatorIdle
    /\ history = <<>> /\ calls = <<>>
    /\ NoWeb

\* start_validation_session returns; glob and the results dict (lines 105-122)
StartSession ==
    /\ batch.pc = "start_session"
    /\ batch' = [batch EXCEPT !.pc = "files",
                              !.total_files = Len(batch.files)]
    /\ UNCHANGED <<pc, content, is_hawaiian, processed_lines, hawaiian_content,
                   english_content, header, hawaiian_lines, english_lines,
                   sections, song_data, result, validation_results, history,
                   calls>>
    /\ UNCHANGED <<form, db, admin, songs>>

\* start_validation_session raises (database_validator.py lines 69-72),
\* outside any try of process_directory
StartSessionRaises ==
    /\ batch.pc = "start_session"
    /\ batch' = [batch EXCEPT !.pc = "raised"]
    /\ UNCHANGED <<pc, content, is_hawaiian, processed_lines, hawaiian_content,
                   english_content, header, hawaiian_lines, english_lines,
                   sections, song_data, result, validation_results, history,
                   calls>>
    /\ UNCHANGED <<form, db, admin, songs>>

\* a loop that lets the exception of a failing file out
ProcessFile_uncaught ==
    /\ batch.pc = "files"
    /\ batch.next_file <= Len(batch.files)
    /\ LET n == batch.next_file
           f == batch.files[n]
       IN  /\ batch' = [batch EXCEPT
                  !.attempts[n] = @ + 1,
                  !.next_file = @ + 1,
                  !.pc = IF FileFails(f) THEN "raised" ELSE @,
                  !.successful = IF FileFails(f) THEN @ ELSE @ + 1,
                  !.validated = IF f.file.header.has_table
                                   /\ f.db # "mele_raises"
                                THEN Append(@, n) ELSE @,
                  !.stored = IF FileFails(f) THEN @ ELSE Append(@, n)]
           /\ validation_results' =
                  IF f.file.header.has_table
                  THEN Append(validation_results, ParsedResult(f.file))
                  ELSE validation_results
    /\ UNCHANGED <<pc, content, is_hawaiian, processed_lines, hawaiian_content,
                   english_content, header, hawaiian_lines, english_lines,
                   sections, song_data, result, history, calls>>
    /\ UNCHANGED <<form, db, admin, songs>>

\* one iteration of the loop of lines 124-129 with the process_file call of
\* lines 76-99: the file's path is its index in files
ProcessFile ==
    /\ batch.pc = "files"
    /\ batch.next_file <= Len(batch.files)
    /\ LET n == batch.next_file
           f == batch.files[n]
       IN  /\ batch' = [batch EXCEPT
                  !.attempts[n] = @ + 1,
                  !.next_file = @ + 1,
                  !.successful = IF FileFails(f) THEN @ ELSE @ + 1,
                  !.failed = IF FileFails(f) THEN @ + 1 ELSE @,
                  !.failed_files = IF FileFails(f) THEN Append(@, n) ELSE @,
                  !.validated = IF f.file.header.has_table
                                   /\ f.db # "mele_raises"
                                THEN Append(@, n) ELSE @,
                  !.stored = IF FileFails(f) THEN @ ELSE Append(@, n)]
           /\ validation_results' =
                  IF f.file.header.has_table
                  THEN Append(validation_results, ParsedResult(f.file))
                  ELSE validation_results
    /\ UNCHANGED <<pc, content, is_hawaiian, processed_lines, hawaiian_content,
                   english_content, header, hawaiian_lines, english_lines,
                   sections, song_data, result, history, calls>>
    /\ UNCHANGED <<form, db, admin, songs>>

\* complete_validation_session returns and process_directory returns results
\* (lines 131-137)
CompleteSession ==
    /\ batch.pc = "files"
    /\ batch.next_file > Len(batch.files)
    /\ batch' = [batch EXCEPT !.pc = "returned"]
    /\ UNCHANGED <<pc, content, is_hawaiian, processed_lines, hawaiian_content,
                   english_content, header, hawaiian_lines, english_lines,
                   sections, song_data, result, validation_results, history,
                   calls>>
    /\ UNCHANGED <<form, db, admin, songs>>

\* complete_validation_session raises (database_validator.py lines 187-190)
CompleteSessionRaises ==
    /\ batch.pc = "files"
    /\ batch.next_file > Len(batch.files)
    /\ batch' = [batch EXCEPT !.pc = "raised"]
    /\ UNCHANGED <<pc, content, is_hawaiian, processed_lines, hawaiian_content,
                   english_content, header, hawaiian_lines, english_lines,
                   sections, song_data, result, validation_results, history,
                   calls>>
    /\ UNCHANGED <<form, db, admin, songs>>

NextBatch ==
    \/ StartSession
    \/ StartSessionRaises
    \/ ProcessFile
    \/ CompleteSession
    \/ CompleteSessionRaises

SpecBatch == InitBatch /\ [][NextBatch]_vars

----------------------------------------------------------------------------
(* _extract_lines_from_content on one cell *)

InitExtract ==
    /\ pc = "extract_lines"
    /\ content \in Cells(SegmentShapes, MaxSegments)
    /\ is_hawaiian \in BOOLEAN
    /\ processed_lines = <<>>
    /\ FileIdle /\ BuilderIdle /\ ValidatorIdle
    /\ SingleCall
    /\ NoWeb

ExtractLines ==
    /\ pc = "extract_lines"
    /\ processed_lines' = _extract_lines_from_content(content, is_hawaiian)
    /\ pc' = "extracted"
    /\ UNCHANGED <<content, is_hawaiian, hawaiian_content, english_content,
                   header, hawaiian_lines, english_lines, sections, song_data,
                   result, validation_results>>
    /\ UNCHANGED <<history, calls, batch>>
    /\ UNCHANGED <<form, db, admin, songs>>

NextExtract == ExtractLines

SpecExtract == InitExtract /\ [][NextExtract]_vars

----------------------------------------------------------------------------
(* _structure_into_sections on two lists of lines *)

InitBuild ==
    /\ pc = "structure_into_sections"
    /\ hawaiian_lines \in SeqsUpTo(HawaiianLinePool, MaxLines)
    /\ english_lines \in SeqsUpTo(EnglishLinePool, MaxLines)
    /\ sections = <<>>
    /\ ExtractorIdle /\ FileIdle /\ ValidatorIdle
    /\ SingleCall
    /\ NoWeb

StructureIntoSections ==
    /\ pc = "structure_into_sections"
    /\ sections' = _structure_into_sections(hawaiian_lines, english_lines)
    /\ pc' = "structured"
    /\ UNCHANGED <<content, is_hawaiian, processed_lines, hawaiian_content,
                   english_content, header, hawaiian_lines, english_lines,
                   song_data, result, validation_results>>
    /\ UNCHANGED <<history, calls, batch>>
    /\ UNCHANGED <<form, db, admin, songs>>

NextBuild == StructureIntoSections

SpecBuild == InitBuild /\ [][NextBuild]_vars

----------------------------------------------------------------------------
(* _structure_into_sections on the columns of a longer song *)

InitSong ==
    /\ pc = "structure_into_sections"
    /\ hawaiian_lines \in SeqsUpTo(HawaiianLinePool, MaxSongLines)
    /\ english_lines \in SeqsUpTo(SongEnglishPool, MaxSongEnglish)
    /\ sections = <<>>
    /\ ExtractorIdle /\ FileIdle /\ ValidatorIdle
    /\ SingleCall
    /\ NoWeb

SpecSong == InitSong /\ [][NextBuild]_vars

----------------------------------------------------------------------------
(* validate_song on one record *)

InitValidate ==
    /\ pc = "validate_song"
    /\ song_data \in SongRecords
    /\ result = NewResult
    /\ validation_results = <<>>
    /\ ExtractorIdle /\ FileIdle /\ BuilderIdle
    /\ SingleCall
    /\ NoWeb

ValidateSong ==
    /\ pc = "validate_song"
    /\ ~AttributionRaises(song_data)
    /\ result' = validate_song(song_data)
    /\ validation_results' = Append(validation_results, result')
    /\ pc' = "returned"
    /\ UNCHANGED <<content, is_hawaiian, processed_lines, hawaiian_content,
                   english_content, header, hawaiian_lines, english_lines,
                   sections, song_data>>
    /\ UNCHANGED <<history, calls, batch>>
    /\ UNCHANGED <<form, db, admin, songs>>

\* AttributeError out of _validate_attribution, before line 153
ValidateSongRaises ==
    /\ pc = "validate_song"
    /\ AttributionRaises(song_data)
    /\ pc' = "raised"
    /\ UNCHANGED <<content, is_hawaiian, processed_lines, hawaiian_content,
                   english_content, header, hawaiian_lines, english_lines,
                   sections, song_data, result, validation_results>>
    /\ UNCHANGED <<history, calls, batch>>
    /\ UNCHANGED <<form, db, admin, songs>>

NextValidate == ValidateSong \/ ValidateSongRaises

SpecValidate == InitValidate /\ [][NextValidate]_vars

----------------------------------------------------------------------------
(* validate_song called again and again on one validator *)

\* total_songs_processed and songs_requiring_review of the report
\* (lines 288-298)
generate_report(results) ==
    [total_songs_processed |-> Len(results),
     songs_requiring_review |->
         SelectSeq(results, LAMBDA r : r.manual_review_required),
     all_results |-> results]

InitValidator ==
    /\ pc = "validate_song"
    /\ song_data \in ValidatorRecords
    /\ result = NewResult
    /\ validation_results = <<>>
    /\ ExtractorIdle /\ FileIdle /\ BuilderIdle
    /\ SingleCall
    /\ NoWeb

\* the caller calls validate_song on the next record; history holds the
\* calls made before with what they ended in
NextSong ==
    /\ pc \in {"returned", "raised"}
    /\ Len(history) + 1 < MaxValidatorCalls
    /\ history' = Append(history, [song_data |-> song_data, outcome |-> pc,
                                   result |-> result])
    /\ song_data' \in ValidatorRecords
    /\ result' = NewResult
    /\ pc' = "validate_song"
    /\ UNCHANGED <<content, is_hawaiian, processed_lines, hawaiian_content,
                   english_content, header, hawaiian_lines, english_lines,
                   sections, validation_results, calls, batch>>
    /\ UNCHANGED <<form, db, admin, songs>>

NextValidator == ValidateSong \/ ValidateSongRaises \/ NextSong

SpecValidator == InitValidator /\ [][NextValidator]_vars

----------------------------------------------------------------------------
(* _calculate_quality_score and _requires_manual_review on one result *)

InitScore ==
    /\ pc = "built"
    /\ result \in BuiltResults
    /\ song_data = <<>>
    /\ validation_results = <<>>
    /\ ExtractorIdle /\ FileIdle /\ BuilderIdle
    /\ SingleCall
    /\ NoWeb

CalculateQualityScore ==
    /\ pc = "built"
    /\ result' = [result EXCEPT
                     !.data_quality_score = _calculate_quality_score(result)]
    /\ pc' = "scored"
    /\ UNCHANGED <<content, is_hawaiian, processed_lines, hawaiian_content,
                   english_content, header, hawaiian_lines, english_lines,
                   sections, song_data, validation_results>>
    /\ UNCHANGED <<history, calls, batch>>
    /\ UNCHANGED <<form, db, admin, songs>>

RequiresManualReview ==
    /\ pc \in {"built", "scored"}
    /\ result' = [result EXCEPT
                     !.manual_review_required = _requires_manual_review(result)]
    /\ pc' = "reviewed"
    /\ UNCHANGED <<content, is_hawaiian, processed_lines, hawaiian_content,
                   english_content, header, hawaiian_lines, english_lines,
                   sections, song_data, validation_results>>
    /\ UNCHANGED <<history, calls, batch>>
    /\ UNCHANGED <<form, db, admin, songs>>

NextScore == CalculateQualityScore \/ RequiresManualReview

SpecScore == InitScore /\ [][NextScore]_vars

----------------------------------------------------------------------------
(* parse_form_data on one submitted form *)

\* the verse ids the editor page puts in its field names
FormVerseIds == {<<"v1", "_", "1">>, <<"v1", "_", "2">>, <<"v2">>}

\* the name verse_<ID>_line_<N>_<hawaiian|english>
LineFieldName(id, n, lang) ==
    <<"verse", "_">> \o id \o <<"_", "line", "_", n, "_", lang>>

\* the fields a form can carry, as <<name, value>>: the lines of the verses
\* and the field verse_v2_label
FormFields ==
    {<<LineFieldName(id, n, lang), value>> :
        id \in FormVerseIds, n \in {"1", "2"},
        lang \in {"hawaiian", "english"}, value \in {<<"A">>, <<"B">>}}
    \cup {<< <<"verse", "_", "v2", "_", "label">>, <<"A">> >>}

\* a form is a dict: no name twice
Forms ==
    {f \in SeqsUpTo(FormFields, MaxFields) :
        \A i, j \in 1..Len(f) : f[i][1] = f[j][1] => i = j}

InitForm ==
    /\ pc = "parse_form_data"
    /\ \E f \in Forms : form = [form_data |-> f, verses |-> None]
    /\ ExtractorIdle /\ FileIdle /\ BuilderIdle /\ ValidatorIdle /\ SingleCall
    /\ db = <<>> /\ admin = <<>> /\ songs = <<>>

ParseFormData ==
    /\ pc = "parse_form_data"
    /\ form' = [form EXCEPT !.verses = parse_form_data(form.form_data)]
    /\ pc' = "parsed"
    /\ UNCHANGED <<content, is_hawaiian, processed_lines, hawaiian_content,
                   english_content, header, hawaiian_lines, english_lines,
                   sections, song_data, result, validation_results, history,
                   calls, batch, db, admin, songs>>

NextForm == ParseFormData

SpecForm == InitForm /\ [][NextForm]_vars

----------------------------------------------------------------------------
(* DatabaseValidator: sessions and stored results (database_validator.py) *)

\* The database answers every statement; ids are serial, from 1.
\* current_session_id 0 is None.

\* the songs handed to the validator: a clean one, one without a composer,
\* one whose translator is None
DbRecords ==
    {[composer |-> c, lyricist |-> <<"A">>, translator |-> t,
      hawaiian_lines |-> << <<"A">> >>, english_lines |-> << <<"B">> >>,
      has_verse_structure |-> TRUE, has_english_translation |-> TRUE,
      stray_text |-> <<>>] :
        c \in {<<>>, <<"A">>}, t \in {None, <<"A">>}}

\* store_validation_result (lines 85-145): the database after the call, with
\* the song_validations row of lines 95-120 and the validation_issues rows
\* of lines 124-140
store_validation_result(d, r, canonical_mele_id) ==
    IF d.current_session_id = 0
    THEN [d EXCEPT !.conn = TRUE, !.outcome = "raised"]
    ELSE [d EXCEPT !.conn = TRUE, !.outcome = "returned",
                   !.song_validations =
                       Append(@, [canonical_mele_id |-> canonical_mele_id,
                                  validation_session_id |-> d.current_session_id,
                                  data_quality_score |-> r.data_quality_score,
                                  manual_review_required |->
                                      r.manual_review_required]),
                   !.validation_issues =
                       @ \o [i \in 1..Len(r.validation_issues) |->
                                [song_validation_id |->
                                     Len(d.song_validations) + 1,
                                 issue_type |->
                                     r.validation_issues[i].issue_type,
                                 severity |->
                                     r.validation_issues[i].severity]]]

InitDb ==
    /\ pc = "database_validator"
    /\ db =
          [conn |-> FALSE, current_session_id |-> 0,
           validation_sessions |-> <<>>, song_validations |-> <<>>,
           validation_issues |-> <<>>,
           call |-> "none", outcome |-> "none", calls |-> 0]
    /\ ExtractorIdle /\ FileIdle /\ BuilderIdle /\ ValidatorIdle /\ SingleCall
    /\ form = <<>> /\ admin = <<>> /\ songs = <<>>

\* start_validation_session (lines 49-72)
StartValidationSession ==
    /\ db.calls < MaxDbCalls
    /\ db' = [db EXCEPT
                 !.conn = TRUE,
                 !.validation_sessions =
                     Append(@, [status |-> "running", songs_processed |-> 0,
                                songs_flagged |-> 0]),
                 !.current_session_id = Len(db.validation_sessions) + 1,
                 !.call = "start_validation_session",
                 !.outcome = "returned",
                 !.calls = @ + 1]
    /\ UNCHANGED <<pc, content, is_hawaiian, processed_lines, hawaiian_content,
                   english_content, header, hawaiian_lines, english_lines,
                   sections, song_data, result, validation_results, history,
                   calls, batch, form, admin, songs>>

\* validate_and_store_song (lines 74-83): validate_song first, then the store
ValidateAndStoreSong ==
    /\ db.calls < MaxDbCalls
    /\ \E data \in DbRecords, canonical_mele_id \in {1, 2} :
          IF AttributionRaises(data)
          THEN /\ db' = [db EXCEPT !.call = "validate_and_store_song",
                                   !.outcome = "raised",
                                   !.calls = @ + 1]
               /\ UNCHANGED validation_results
          ELSE /\ validation_results' =
                      Append(validation_results, validate_song(data))
               /\ db' = [store_validation_result(db, validate_song(data),
                                                  canonical_mele_id)
                            EXCEPT !.call = "validate_and_store_song",
                                   !.calls = @ + 1]
    /\ UNCHANGED <<pc, content, is_hawaiian, processed_lines, hawaiian_content,
                   english_content, header, hawaiian_lines, english_lines,
                   sections, song_data, result, history,
                   calls, batch, form, admin, songs>>

\* store_validation_result called on a result validated before
StoreValidationResult ==
    /\ db.calls < MaxDbCalls
    /\ \E i \in 1..Len(validation_results), canonical_mele_id \in {1, 2} :
          db' = [store_validation_result(db, validation_results[i],
                                         canonical_mele_id)
                    EXCEPT !.call = "store_validation_result",
                           !.calls = @ + 1]
    /\ UNCHANGED <<pc, content, is_hawaiian, processed_lines, hawaiian_content,
                   english_content, header, hawaiian_lines, english_lines,
                   sections, song_data, result, validation_results, history,
                   calls, batch, form, admin, songs>>

\* complete_validation_session (lines 147-190)
CompleteValidationSession ==
    /\ db.calls < MaxDbCalls
    /\ db' = LET SessionRows ==
                     SelectSeq(db.song_validations,
                         LAMBDA row : row.validation_session_id
                                          = db.current_session_id)
             IN
             IF ~db.conn \/ db.current_session_id = 0
             THEN [db EXCEPT !.call = "complete_validation_session",
                             !.outcome = "returned",
                             !.calls = @ + 1]
             ELSE [db EXCEPT
                      !.validation_sessions[db.current_session_id] =
                          [status |-> "completed",
                           songs_processed |-> Len(SessionRows),
                           songs_flagged |->
                               Len(SelectSeq(SessionRows,
                                   LAMBDA row : row.manual_review_required))],
                      !.current_session_id = 0,
                      !.call = "complete_validation_session",
                      !.outcome = "returned",
                      !.calls = @ + 1]
    /\ UNCHANGED <<pc, content, is_hawaiian, processed_lines, hawaiian_content,
                   english_content, header, hawaiian_lines, english_lines,
                   sections, song_data, result, validation_results, history,
                   calls, batch, form, admin, songs>>

NextDb ==
    \/ StartValidationSession
    \/ ValidateAndStoreSong
    \/ StoreValidationResult
    \/ CompleteValidationSession

SpecDb == InitDb /\ [][NextDb]_vars

----------------------------------------------------------------------------
(* Admin sessions: create_session, validate_session, login, logout (main.py) *)

\* timedelta(hours=2); the clock counts whole hours and never runs backwards
SESSION_TIMEOUT == 2

\* Tokens are the numbers 1, 2, ... in the order generate_session_token
\* hands them out, each one new. A request carries a cookie of
\* 0..(MaxTokens + 1): 0 is no cookie at all, and the one after the last
\* token is a string that was never issued.

\* the sessions dict without one key
Without(sessions_, token) ==
    [t \in (DOMAIN sessions_) \ {token} |-> sessions_[t]]

\* create_session (lines 74-81): the sessions dict with the new token
create_session(sessions_, token, now) ==
    [t \in (DOMAIN sessions_) \cup {token} |->
        IF t = token
        THEN [username |-> "kahu", created_at |-> now, last_accessed |-> now]
        ELSE sessions_[t]]

\* validate_session that leaves last_accessed as it was
validate_session_no_refresh(sessions_, token, now) ==
    IF token = 0 \/ token \notin DOMAIN sessions_
    THEN [sessions |-> sessions_, answer |-> FALSE]
    ELSE IF now - sessions_[token].last_accessed > SESSION_TIMEOUT
    THEN [sessions |-> Without(sessions_, token), answer |-> FALSE]
    ELSE [sessions |-> sessions_, answer |-> TRUE]

\* validate_session (lines 83-93): the sessions dict after the call and
\* the answer
validate_session(sessions_, token, now) ==
    IF token = 0 \/ token \notin DOMAIN sessions_
    THEN [sessions |-> sessions_, answer |-> FALSE]
    ELSE IF now - sessions_[token].last_accessed > SESSION_TIMEOUT
    THEN [sessions |-> Without(sessions_, token), answer |-> FALSE]
    ELSE [sessions |-> [sessions_ EXCEPT ![token].last_accessed = now],
          answer |-> TRUE]

\* What has happened to each token, kept beside the program's state:
\* last_use[t] is the hour of the login that issued t or of the latest
\* validate_session that accepted it, long_gap holds the tokens presented
\* more than SESSION_TIMEOUT after their last_use.
InitAdmin ==
    /\ pc = "admin"
    /\ admin =
          [sessions |-> <<>>, now |-> 0, next_token |-> 1,
           last_use |-> <<>>, long_gap |-> {},
           logged_out |-> {}, expired |-> {},
           call |-> "none", token |-> 0, answer |-> FALSE]
    /\ ExtractorIdle /\ FileIdle /\ BuilderIdle /\ ValidatorIdle /\ SingleCall
    /\ form = <<>> /\ db = <<>> /\ songs = <<>>

\* admin_login with the right name and password (lines 963-977)
AdminLogin ==
    /\ admin.next_token <= MaxTokens
    /\ admin' = [admin EXCEPT
                    !.sessions = create_session(@, admin.next_token, admin.now),
                    !.next_token = @ + 1,
                    !.last_use = Append(@, admin.now),
                    !.call = "admin_login",
                    !.token = admin.next_token,
                    !.answer = TRUE]
    /\ UNCHANGED <<pc, content, is_hawaiian, processed_lines, hawaiian_content,
                   english_content, header, hawaiian_lines, english_lines,
                   sections, song_data, result, validation_results, history,
                   calls, batch, form, db, songs>>

\* admin_login with a wrong name or password (lines 978-980)
AdminLoginRefused ==
    /\ admin.call # "admin_login_refused"
    /\ admin' = [admin EXCEPT !.call = "admin_login_refused",
                              !.token = 0,
                              !.answer = FALSE]
    /\ UNCHANGED <<pc, content, is_hawaiian, processed_lines, hawaiian_content,
                   english_content, header, hawaiian_lines, english_lines,
                   sections, song_data, result, validation_results, history,
                   calls, batch, form, db, songs>>

\* require_auth on a request carrying any cookie (lines 95-100)
ValidateSession ==
    \E token \in 0..(MaxTokens + 1) :
        LET v == validate_session(admin.sessions, token, admin.now)
        IN  /\ admin' = [admin EXCEPT
                            !.sessions = v.sessions,
                            !.last_use =
                                IF v.answer
                                THEN [@ EXCEPT ![token] = admin.now]
                                ELSE @,
                            !.long_gap =
                                IF /\ token \in 1..Len(admin.last_use)
                                   /\ admin.now - admin.last_use[token]
                                          > SESSION_TIMEOUT
                                THEN @ \cup {token} ELSE @,
                            !.expired =
                                IF token \in DOMAIN admin.sessions /\ ~v.answer
                                THEN @ \cup {token} ELSE @,
                            !.call = "validate_session",
                            !.token = token,
                            !.answer = v.answer]
            /\ UNCHANGED <<pc, content, is_hawaiian, processed_lines,
                           hawaiian_content, english_content, header,
                           hawaiian_lines, english_lines, sections, song_data,
                           result, validation_results, history, calls, batch,
                           form, db, songs>>

\* admin_logout on a request carrying any cookie (lines 983-992)
AdminLogout ==
    \E token \in 0..(MaxTokens + 1) :
        /\ admin' = [admin EXCEPT
                        !.sessions =
                            IF token # 0 /\ token \in DOMAIN admin.sessions
                            THEN Without(@, token) ELSE @,
                        !.logged_out =
                            IF token # 0 /\ token \in DOMAIN admin.sessions
                            THEN @ \cup {token} ELSE @,
                        !.call = "admin_logout",
                        !.token = token,
                        !.answer = FALSE]
        /\ UNCHANGED <<pc, content, is_hawaiian, processed_lines,
                       hawaiian_content, english_content, header,
                       hawaiian_lines, english_lines, sections, song_data,
                       result, validation_results, history, calls, batch,
                       form, db, songs>>

\* an hour passes
Tick ==
    /\ admin.now < MaxClock
    /\ admin' = [admin EXCEPT !.now = @ + 1, !.call = "none", !.token = 0,
                              !.answer = FALSE]
    /\ UNCHANGED <<pc, content, is_hawaiian, processed_lines, hawaiian_content,
                   english_content, header, hawaiian_lines, english_lines,
                   sections, song_data, result, validation_results, history,
                   calls, batch, form, db, songs>>

NextAdmin ==
    \/ AdminLogin
    \/ AdminLoginRefused
    \/ ValidateSession
    \/ AdminLogout
    \/ Tick

SpecAdmin == InitAdmin /\ [][NextAdmin]_vars

----------------------------------------------------------------------------
(* save_comprehensive_song_data on one song (main.py) *)

\* song_data.lyrics.verses of the submitted songs: verses 1..k of one line
\* each, k from 0
SubmittedLyrics ==
    UNION {{[n \in 1..k |->
                [id |-> <<"v", n>>, type |-> "verse", number |-> n,
                 order |-> n,
                 lines |-> << [id |-> <<<<"v", n>>, 1>>, line_number |-> 1,
                               hawaiian_text |-> texts[n],
                               english_text |-> <<"B">>] >>]] :
               texts \in [1..k -> {<<"A">>, <<"a">>}]} : k \in 0..MaxVerses}

\* the Verses rows lines 1287-1298 add, their ids following last_id
NewVerses(verses, source_id, last_id) ==
    [i \in 1..Len(verses) |->
        [id |-> last_id + i, mele_source_id |-> source_id,
         verse_id |-> verses[i].id, verse_type |-> verses[i].type,
         verse_number |-> verses[i].number, verse_order |-> verses[i].order]]

\* the VerseLines rows lines 1303-1314 add for verses i.. of the song
RECURSIVE NewVerseLines(_, _, _)
NewVerseLines(verses, i, last_id) ==
    IF i > Len(verses) THEN <<>>
    ELSE [k \in 1..Len(verses[i].lines) |->
             [verse_id |-> last_id + i,
              line_id |-> verses[i].lines[k].id,
              line_number |-> verses[i].lines[k].line_number,
              hawaiian_text |-> verses[i].lines[k].hawaiian_text,
              english_text |-> verses[i].lines[k].english_text]]
         \o NewVerseLines(verses, i + 1, last_id)

\* A song with one source at most (id 1). A stored song has its tables in
\* step with its verses_json, as the save of a song with verses leaves them.
\* The verses_json column is NULL (null TRUE) or the JSON of lines 1243-1264.
StoredSong(has_source, verses) ==
    [source |-> has_source,
     verses_json |-> IF has_source /\ verses # <<>>
                     THEN [null |-> FALSE, verses |-> verses]
                     ELSE [null |-> TRUE, verses |-> <<>>],
     Verses |-> IF has_source THEN NewVerses(verses, 1, 0) ELSE <<>>,
     VerseLines |-> IF has_source THEN NewVerseLines(verses, 1, 0) ELSE <<>>,
     last_id |-> IF has_source THEN Len(verses) ELSE 0,
     outcome |-> "none", saves |-> 0]

InitSave ==
    /\ pc = "save_comprehensive_song_data"
    /\ \/ songs = StoredSong(FALSE, <<>>)
       \/ \E verses \in SubmittedLyrics : songs = StoredSong(TRUE, verses)
    /\ ExtractorIdle /\ FileIdle /\ BuilderIdle /\ ValidatorIdle /\ SingleCall
    /\ form = <<>> /\ db = <<>> /\ admin = <<>>

\* save_comprehensive_song_data that commits (lines 1155-1342)
SaveComprehensiveSongData ==
    /\ songs.saves < MaxSaves
    /\ \E verses \in SubmittedLyrics :
          songs' =
              IF ~songs.source
              THEN [songs EXCEPT !.outcome = "success", !.saves = @ + 1]
              ELSE [songs EXCEPT
                       !.verses_json =
                           IF verses # <<>>
                           THEN [null |-> FALSE, verses |-> verses] ELSE @,
                       !.Verses =
                           SelectSeq(@, LAMBDA v : v.mele_source_id # 1)
                           \o IF verses # <<>>
                              THEN NewVerses(verses, 1, songs.last_id)
                              ELSE <<>>,
                       !.VerseLines =
                           SelectSeq(@, LAMBDA l :
                               \A i \in 1..Len(songs.Verses) :
                                   songs.Verses[i].mele_source_id = 1
                                   => l.verse_id # songs.Verses[i].id)
                           \o IF verses # <<>>
                              THEN NewVerseLines(verses, 1, songs.last_id)
                              ELSE <<>>,
                       !.last_id = @ + Len(verses),
                       !.outcome = "success",
                       !.saves = @ + 1]
    /\ UNCHANGED <<pc, content, is_hawaiian, processed_lines, hawaiian_content,
                   english_content, header, hawaiian_lines, english_lines,
                   sections, song_data, result, validation_results, history,
                   calls, batch, form, db, admin>>

\* save_comprehensive_song_data that fails: rollback, HTTP 500 (lines 1344-1346)
SaveRaises ==
    /\ songs.saves < MaxSaves
    /\ songs' = [songs EXCEPT !.outcome = "raised", !.saves = @ + 1]
    /\ UNCHANGED <<pc, content, is_hawaiian, processed_lines, hawaiian_content,
                   english_content, header, hawaiian_lines, english_lines,
                   sections, song_data, result, validation_results, history,
                   calls, batch, form, db, admin>>

NextSave == SaveComprehensiveSongData \/ SaveRaises

SpecSave == InitSave /\ [][NextSave]_vars

----------------------------------------------------------------------------
(* Properties of the section builder *)

\* a line that is neither the sentinel nor a chorus marker on either side
Ordinary(line) ==
    /\ line # SECTION_BREAK
    /\ ~StartsWith(Lower(Strip(line)), "hui:")
    /\ ~StartsWith(Lower(Strip(line)), "chorus:")

AllOrdinary(lines) == \A i \in 1..Len(lines) : Ordinary(lines[i])

\* every Line of every section, in output order
RECURSIVE AllLines(_)
AllLines(secs) ==
    IF secs = <<>> THEN <<>> ELSE Head(secs).lines \o AllLines(Tail(secs))

\* C1: when 'Hui:' follows ordinary Hawaiian lines with no sentinel in between,
\* the line before the marker is closed as a verse section of its own and only
\* the line after the marker forms the chorus section; e.g. for
\* ['E ka pua', 'Hui:', 'Nani wale'] the output is a verse section with one
\* line, then a chorus section holding only 'Nani wale', and no Line for the
\* marker.
C1_MarkerClosesVerse ==
    ( /\ pc = "structured"
      /\ Len(hawaiian_lines) = 3
      /\ Ordinary(hawaiian_lines[1])
      /\ hawaiian_lines[2] = <<"Hui:">>
      /\ Ordinary(hawaiian_lines[3])
      /\ AllOrdinary(english_lines) )
    => /\ Len(sections) = 2
       /\ sections[1].section_type = "verse"
       /\ Len(sections[1].lines) = 1
       /\ sections[1].lines[1].hawaiian_text = hawaiian_lines[1]
       /\ sections[2].section_type = "chorus"
       /\ Len(sections[2].lines) = 1
       /\ sections[2].lines[1].hawaiian_text = hawaiian_lines[3]

\* C7: for Hawaiian and English lists of lengths m and n without sentinel and
\* without marker, exactly max(m, n) Lines are produced and the k-th Line
\* carries hawaiian[k] and english[k], the empty string standing in for the
\* side that has no element k; order is kept and nothing is dropped.
C7_PairedByIndex ==
    ( /\ pc = "structured"
      /\ AllOrdinary(hawaiian_lines)
      /\ AllOrdinary(english_lines) )
    => LET out == AllLines(sections)
           m == Len(hawaiian_lines)
           n == Len(english_lines)
       IN  /\ Len(out) = (IF m >= n THEN m ELSE n)
           /\ \A k \in 1..Len(out) :
                /\ out[k].hawaiian_text =
                       (IF k <= m THEN hawaiian_lines[k] ELSE <<>>)
                /\ out[k].english_text =
                       (IF k <= n THEN english_lines[k] ELSE <<>>)

\* C7 witness: three Hawaiian lines against one English line, paired into
\* three Lines of which the last two have an empty English text
C7_Witness ==
    /\ pc = "structured"
    /\ hawaiian_lines = << <<"A">>, <<"B">>, <<"A">> >>
    /\ english_lines = << <<"b">> >>
    /\ Len(AllLines(sections)) = 3
    /\ AllLines(sections)[1].english_text = <<"b">>
    /\ AllLines(sections)[3].hawaiian_text = <<"A">>
    /\ AllLines(sections)[3].english_text = <<>>

----------------------------------------------------------------------------
(* Properties of the validator *)

\* how many issues of a list have the given severity
CountSeverity(issues, sev) ==
    Cardinality({i \in 1..Len(issues) : issues[i].severity = sev})

\* C8: for every list of issues the score is
\* max(0, 100 - (25 critical + 15 high + 8 medium + 3 low)), so it lies in 0..100.
C8_ScoreFormula ==
    pc = "scored"
    => LET issues == result.validation_issues
           deduction == 25 * CountSeverity(issues, "critical")
                        + 15 * CountSeverity(issues, "high")
                        + 8 * CountSeverity(issues, "medium")
                        + 3 * CountSeverity(issues, "low")
       IN  /\ result.data_quality_score =
                  (IF deduction >= 100 THEN 0 ELSE 100 - deduction)
           /\ result.data_quality_score \in 0..100

\* C8 witness: a scored result whose deductions pass 100 and whose score is 0
C8_Witness ==
    /\ pc = "scored"
    /\ CountSeverity(result.validation_issues, "critical") = 3
    /\ CountSeverity(result.validation_issues, "high") = 2
    /\ Len(result.validation_issues) = 5
    /\ result.data_quality_score = 0

\* C9: manual_review_required is true exactly when some issue is high or
\* critical, or the score is below 70, or stray_text is non-empty, or there
\* are more than 5 issues; any one trigger suffices.
C9_ReviewFlag ==
    pc = "reviewed"
    => ( result.manual_review_required
         <=> \/ \E i \in 1..Len(result.validation_issues) :
                   result.validation_issues[i].severity \in {"high", "critical"}
             \/ result.data_quality_score < 70
             \/ result.stray_text # <<>>
             \/ Len(result.validation_issues) > 5 )

\* C9 witness: score 95, no issue above low, stray text present, flagged
C9_Witness ==
    /\ pc = "reviewed"
    /\ result.data_quality_score = 95
    /\ result.stray_text # <<>>
    /\ result.validation_issues = <<Issue("unusual_formatting", "low")>>
    /\ result.manual_review_required

\* the positions of the line_count_mismatch issues of a result
Mismatches(r) ==
    {i \in 1..Len(r.validation_issues) :
        r.validation_issues[i].issue_type = "line_count_mismatch"}

\* C10: the result of validate_song holds exactly one line_count_mismatch
\* issue, of severity high, when len(hawaiian_lines) differs from
\* len(english_lines) and none when they are equal; when it is the only issue
\* the score is exactly 85.
C10_MismatchFlagged ==
    ( pc = "returned" /\ validation_results # <<>> )
    => LET h == Get(song_data, "hawaiian_lines", <<>>)
           e == Get(song_data, "english_lines", <<>>)
       IN  /\ Cardinality(Mismatches(result)) =
                  (IF Len(h) # Len(e) THEN 1 ELSE 0)
           /\ \A i \in Mismatches(result) :
                  result.validation_issues[i].severity = "high"
           /\ ( Mismatches(result) # {} /\ Len(result.validation_issues) = 1 )
              => result.data_quality_score = 85

\* C10 witness: 5 Hawaiian and 3 English lines, nothing else wrong, score 85
C10_Witness ==
    /\ pc = "returned"
    /\ Len(song_data.hawaiian_lines) = 5
    /\ Len(song_data.english_lines) = 3
    /\ result.validation_issues = <<Issue("line_count_mismatch", "high")>>
    /\ result.data_quality_score = 85

----------------------------------------------------------------------------
(* Properties of the whole parse *)

\* the lists the extractor makes of the two cells, before the alignment pass
ExtractedHawaiian == _extract_lines_from_content(hawaiian_content, TRUE)

ExtractedEnglish == _extract_lines_from_content(english_content, FALSE)

\* a text that is only a marker once trimmed and lowercased
PureMarker(text) == Lower(Strip(text)) \in {<<"hui:">>, <<"chorus:">>}

\* C2: when the Hawaiian column has 'Hui:' and the English column already has
\* 'Chorus:' at the same position after a blank-line break, the parse gives
\* exactly the sections v1 (verse) and c1 (chorus), and c1 has exactly one line
\* that pairs the Hawaiian line after 'Hui:' with the English line after
\* 'Chorus:'; neither marker is stored as line text.
C2_ChorusScenario ==
    ( /\ pc = "returned"
      /\ Len(ExtractedHawaiian) = 4 /\ Len(ExtractedEnglish) = 4
      /\ Ordinary(ExtractedHawaiian[1]) /\ Ordinary(ExtractedEnglish[1])
      /\ ExtractedHawaiian[2] = SECTION_BREAK
      /\ ExtractedEnglish[2] = SECTION_BREAK
      /\ ExtractedHawaiian[3] = <<"Hui:">>
      /\ ExtractedEnglish[3] = <<"Chorus:">>
      /\ Ordinary(ExtractedHawaiian[4]) /\ Ordinary(ExtractedEnglish[4]) )
    => /\ Len(sections) = 2
       /\ sections[1].section_id = <<"v", 1>>
       /\ sections[1].section_type = "verse"
       /\ sections[2].section_id = <<"c", 1>>
       /\ sections[2].section_type = "chorus"
       /\ Len(sections[2].lines) = 1
       /\ sections[2].lines[1].hawaiian_text = ExtractedHawaiian[4]
       /\ sections[2].lines[1].english_text = ExtractedEnglish[4]
       /\ \A k \in 1..Len(AllLines(sections)) :
            /\ ~PureMarker(AllLines(sections)[k].hawaiian_text)
            /\ ~PureMarker(AllLines(sections)[k].english_text)

\* a token that is a word of lyrics
IsWord(c) ==
    c \notin Tags \cup {" ", "nbsp", "&nbsp;", P_BREAK, "__SECTION_BREAK__",
                        "Hui:", "hui:", "Chorus:", "chorus:"}

WordsOf(text) == SelectSeq(text, IsWord)

\* the words of a list of texts, in order
RECURSIVE WordsOfAll(_)
WordsOfAll(texts) ==
    IF texts = <<>> THEN <<>>
    ELSE WordsOf(Head(texts)) \o WordsOfAll(Tail(texts))

\* the input segments of a cell that are neither empty nor a marker
ContentSegments(cell, hawaiian) ==
    SelectSeq(RawSegments(cell, hawaiian), LAMBDA seg : WordsOf(seg) # <<>>)

\* the non-empty texts of one language in the output
OutputTexts(field) ==
    SelectSeq([k \in 1..Len(AllLines(sections)) |-> AllLines(sections)[k][field]],
              LAMBDA text : text # <<>>)

\* every content segment of the cell is listed in stray_text
AllInStrayText(cell, hawaiian) ==
    \A k \in 1..Len(ContentSegments(cell, hawaiian)) :
        \E j \in 1..Len(song_data.stray_text) :
            song_data.stray_text[j] = CleanSegment(ContentSegments(cell, hawaiian)[k])

\* C3: over the whole parse, the number of non-empty line texts in the output
\* never exceeds the number of non-empty, non-marker input segments, and every
\* input segment whose text does not end up in an output Line is a marker, a
\* sentinel or is listed in stray_text: the words of each column's segments
\* are the words of that column's output texts, in order.
C3_Conservation ==
    pc = "returned"
    => /\ Len(OutputTexts("hawaiian_text")) + Len(OutputTexts("english_text"))
              <= Len(ContentSegments(hawaiian_content, TRUE))
                 + Len(ContentSegments(english_content, FALSE))
       /\ \/ WordsOfAll(ContentSegments(hawaiian_content, TRUE))
                 = WordsOfAll(OutputTexts("hawaiian_text"))
          \/ AllInStrayText(hawaiian_content, TRUE)
       /\ \/ WordsOfAll(ContentSegments(english_content, FALSE))
                 = WordsOfAll(OutputTexts("english_text"))
          \/ AllInStrayText(english_content, FALSE)

\* C5: no hawaiian_text or english_text of any Line of any emitted section
\* contains the section-break sentinel or the paragraph-break placeholder.
C5_NoSentinelStored ==
    pc = "returned"
    => \A k \in 1..Len(AllLines(sections)) :
         /\ ~Contains(AllLines(sections)[k].hawaiian_text, "__SECTION_BREAK__")
         /\ ~Contains(AllLines(sections)[k].hawaiian_text, P_BREAK)
         /\ ~Contains(AllLines(sections)[k].english_text, "__SECTION_BREAK__")
         /\ ~Contains(AllLines(sections)[k].english_text, P_BREAK)

\* C6: whenever the two columns of a file yield different numbers of lines,
\* the lines are paired with the shorter side padded and the result parse_file
\* returns holds a line_count_mismatch issue.
C6_MismatchReported ==
    ( /\ pc = "returned"
      /\ Len(hawaiian_lines) # Len(english_lines) )
    => /\ Len(AllLines(sections)) <= Max(Len(hawaiian_lines), Len(english_lines))
       /\ \E i \in 1..Len(result.validation_issues) :
              result.validation_issues[i].issue_type = "line_count_mismatch"

----------------------------------------------------------------------------
(* Properties of the line extractor *)

\* the joining rule as stated: a segment continues the line in progress iff
\* its first character is lower case, it is not the sentinel and it does not
\* begin with 'hui:' or 'chorus:'; open says a line is in progress
RECURSIVE JoinedAsStated(_, _, _)
JoinedAsStated(segs, lines, open) ==
    IF segs = <<>> THEN lines
    ELSE LET seg == Head(segs)
         IN  IF seg = SECTION_BREAK
             THEN JoinedAsStated(Tail(segs), Append(lines, SECTION_BREAK), FALSE)
             ELSE IF /\ open
                     /\ IsLowerChar(seg[1])
                     /\ LowerChar(seg[1]) \notin {"hui:", "chorus:"}
             THEN JoinedAsStated(Tail(segs),
                      [lines EXCEPT ![Len(lines)] = @ \o <<" ">> \o seg], TRUE)
             ELSE JoinedAsStated(Tail(segs), Append(lines, seg), TRUE)

\* C4: a cleaned segment is joined, with a single space, onto the line in
\* progress if and only if its first character is lower case, it is not the
\* sentinel and it does not begin with 'hui:' or 'chorus:'; otherwise it
\* starts a new line.  A lower-case segment that only contains 'hui:' later in
\* its text is joined.
C4_ContinuationJoin ==
    pc = "extracted"
    => processed_lines =
           PopTrailingBreaks(
               JoinedAsStated(CleanSegments(content, is_hawaiian), <<>>, FALSE))

----------------------------------------------------------------------------
(* Properties of the emitted lines and sections *)

\* C11: in every section parse_file emits, every Line has a non-empty
\* hawaiian_text or a non-empty english_text.
C11_NoEmptyLine ==
    pc = "returned" =>
        \A i \in 1..Len(AllLines(sections)) :
            \/ AllLines(sections)[i].hawaiian_text # <<>>
            \/ AllLines(sections)[i].english_text # <<>>

\* the number of sections of the type of the k-th one among the first k
RankInType(secs, k) ==
    Cardinality({j \in 1..k : secs[j].section_type = secs[k].section_type})

\* C12: the k-th verse in output order has section_number k and section_id
\* v<k>, the k-th chorus has section_number k and section_id c<k>, and no two
\* sections of a song share a section_id.
C12_SectionNumbering ==
    pc = "structured" =>
        /\ \A k \in 1..Len(sections) :
              /\ sections[k].section_type \in {"verse", "chorus"}
              /\ sections[k].section_number = RankInType(sections, k)
              /\ sections[k].section_id =
                     <<IF sections[k].section_type = "verse" THEN "v" ELSE "c",
                       RankInType(sections, k)>>
        /\ \A j, k \in 1..Len(sections) :
              j # k => sections[j].section_id # sections[k].section_id

\* a song built into a verse, a chorus and a second verse
C12_Witness ==
    /\ pc = "structured"
    /\ Len(sections) = 3
    /\ sections[1].section_id = <<"v", 1>>
    /\ sections[2].section_id = <<"c", 1>>
    /\ sections[3].section_id = <<"v", 2>>

\* a pair the builder keeps as a line
RegularPair(pair) ==
    /\ pair[1] # SECTION_BREAK
    /\ pair[2] # SECTION_BREAK
    /\ ~_is_chorus_marker(pair[1], pair[2])

\* the texts of lines, as pairs
TextPairs(lines) ==
    [i \in 1..Len(lines) |-> <<lines[i].hawaiian_text, lines[i].english_text>>]

\* C13: in every emitted section the lines carry line_number 1..N without
\* gaps, in the order of the input, each line_id is <section_id>.<line_number>,
\* and no two lines of a song share a line_id.
C13_LineIds ==
    pc = "structured" =>
        /\ \A k \in 1..Len(sections) :
              \A n \in 1..Len(sections[k].lines) :
                  /\ sections[k].lines[n].line_number = n
                  /\ sections[k].lines[n].line_id =
                         <<sections[k].section_id, n>>
        /\ TextPairs(AllLines(sections)) =
               SelectSeq(PairLines(hawaiian_lines, english_lines), RegularPair)
        /\ \A i, j \in 1..Len(AllLines(sections)) :
              i # j => AllLines(sections)[i].line_id
                          # AllLines(sections)[j].line_id

\* two sections, the first with two different lines, the second with a line
\* whose position in the song is not its position in the section
C13_Witness ==
    /\ pc = "structured"
    /\ Len(sections) >= 2
    /\ Len(sections[1].lines) = 2
    /\ sections[1].lines[1].hawaiian_text = <<"A">>
    /\ sections[1].lines[2].hawaiian_text = <<"B">>
    /\ sections[2].lines[1].line_id = <<sections[2].section_id, 1>>

\* C14: every section _structure_into_sections returns has at least one line.
C14_NoEmptySection ==
    pc = "structured" =>
        \A k \in 1..Len(sections) : sections[k].lines # <<>>

\* consecutive sentinels, a marker followed by a sentinel and a marker at the
\* end of the input, in a song that still has a section
C14_Witness ==
    /\ pc = "structured"
    /\ sections # <<>>
    /\ \E i \in 1..(Len(hawaiian_lines) - 1) :
          hawaiian_lines[i] = SECTION_BREAK
              /\ hawaiian_lines[i + 1] = SECTION_BREAK
    /\ \E i \in 1..(Len(hawaiian_lines) - 1) :
          hawaiian_lines[i] = <<"Hui:">>
              /\ hawaiian_lines[i + 1] = SECTION_BREAK
    /\ hawaiian_lines[Len(hawaiian_lines)] = <<"Hui:">>

----------------------------------------------------------------------------
(* Properties of a parser instance over several files *)

\* the calls that have ended, the one in hand last
EndedCalls ==
    IF pc \in {"returned", "raised"} THEN Append(history, EndedCall)
    ELSE history

\* C15: when the lyrics table cannot be found, parse_file raises, gives back
\* no ParsedSong and no validation result, and adds no entry to the
\* validator's accumulated results.
C15_NoTableRaises ==
    /\ \A i \in 1..Len(EndedCalls) :
          ~EndedCalls[i].header.has_table =>
              /\ EndedCalls[i].outcome = "raised"
              /\ EndedCalls[i].sections = <<>>
              /\ EndedCalls[i].result = NewResult
    /\ Len(validation_results) =
           Cardinality({i \in 1..Len(EndedCalls) :
                           EndedCalls[i].header.has_table})

\* a file without the table after a file that was parsed and validated
C15_Witness ==
    /\ pc = "raised"
    /\ Len(history) = 1
    /\ history[1].outcome = "returned"
    /\ Len(validation_results) = 1

----------------------------------------------------------------------------
(* Properties of validate_song on any record *)

\* C16: validate_song returns a SongValidationResult and does not raise,
\* whatever combination of composer, lyricist, translator, line lists and
\* stray_text is absent, empty or None.
C16_NeverRaises ==
    pc # "raised"

----------------------------------------------------------------------------
(* Properties of the alignment-fix pass *)

\* C20: when the Hawaiian column has a line that is exactly 'hui:' (trimmed,
\* case-insensitive) at position i, the pass inserts 'Chorus:' into the
\* English column at position i only if the English column does not already
\* have 'Chorus:' there; when it has, the English column keeps its length and
\* order.
C20_AlignmentFix ==
    pc = "returned" =>
        LET i == HuiIndex(ExtractedHawaiian)
        IN  (i # 0 /\ i <= Len(ExtractedEnglish)) =>
                IF ExtractedEnglish[i] = <<"Chorus:">>
                THEN english_lines = CleanEnglish(ExtractedEnglish)
                ELSE english_lines =
                         CleanEnglish(Insert(ExtractedEnglish, i, <<"Chorus:">>))

----------------------------------------------------------------------------
(* Properties of parse calls in progress together *)

\* what call c returns when it runs alone
Alone(c) ==
    _structure_into_sections(calls[c].hawaiian_lines, calls[c].english_lines)

\* C19: whatever the order in which the steps of two parse calls are
\* interleaved, each call builds the sections (section numbers, line ids)
\* it builds alone: at every step the locals of a call are those that lead
\* to its own result.
C19_Independence ==
    pc = "calls" =>
        \A c \in CallIds :
            IF calls[c].pc = "loop"
            THEN FinishFinalSection(
                     SectionLoop(calls[c].paired_lines, calls[c].i,
                                 calls[c].st)) = Alone(c)
            ELSE calls[c].sections = Alone(c)

\* the second call has run to its end and returned a chorus while the first
\* call is inside its loop, one verse closed and a line of the next in hand
C19_Witness ==
    /\ pc = "calls"
    /\ calls[1].pc = "loop"
    /\ calls[1].i = 4
    /\ calls[1].st.verse_count = 1
    /\ calls[1].st.current_section_lines # <<>>
    /\ calls[2].pc = "returned"
    /\ Len(calls[2].sections) = 1
    /\ calls[2].sections[1].section_id = <<"c", 1>>
    /\ Len(validation_results) = 1

----------------------------------------------------------------------------
(* Properties of the batch run *)

\* the paths, in the order of files, of the files whose processing fails
RECURSIVE FailingPaths(_, _)
FailingPaths(files, n) ==
    IF n > Len(files) THEN <<>>
    ELSE (IF FileFails(files[n]) THEN <<n>> ELSE <<>>)
             \o FailingPaths(files, n + 1)

\* C17: a failure while parsing or storing one file never stops the run of
\* process_directory: the run ends, once its session is started, only after
\* every matching file was attempted exactly once; when it returns,
\* successful + failed is total_files and failed_files holds exactly the
\* paths that failed.
C17_BatchIsolation ==
    pc = "process_directory" =>
        /\ \A n \in 1..Len(batch.files) :
              batch.attempts[n] = (IF n < batch.next_file THEN 1 ELSE 0)
        /\ batch.pc = "raised" =>
              batch.next_file \in {1, Len(batch.files) + 1}
        /\ batch.pc = "returned" =>
              /\ batch.next_file = Len(batch.files) + 1
              /\ batch.total_files = Len(batch.files)
              /\ batch.successful + batch.failed = batch.total_files
              /\ batch.failed_files = FailingPaths(batch.files, 1)

\* a returned run over three files: the first fails in parse_file, the
\* second in the database, the third is stored
C17_Witness ==
    /\ pc = "process_directory"
    /\ batch.pc = "returned"
    /\ batch.total_files = 3
    /\ ~batch.files[1].file.header.has_table
    /\ batch.files[2].file.header.has_table
    /\ batch.files[2].db = "store_raises"
    /\ batch.failed_files = <<1, 2>>
    /\ batch.stored = <<3>>

----------------------------------------------------------------------------
(* Properties of the section types *)

\* a pair with the sentinel on either side
SentinelPair(pair) == pair[1] = SECTION_BREAK \/ pair[2] = SECTION_BREAK

\* the types of the sections of the pairs from i on, read off the input: the
\* pairs between two sentinel pairs make a section when one of them is a line,
\* a chorus when one of them is a marker pair
RECURSIVE TypesFrom(_, _, _, _)
TypesFrom(paired_lines, i, has_line, has_marker) ==
    LET closed == IF has_line
                  THEN << IF has_marker THEN "chorus" ELSE "verse" >>
                  ELSE <<>>
    IN  IF i > Len(paired_lines) THEN closed
        ELSE IF SentinelPair(paired_lines[i])
        THEN closed \o TypesFrom(paired_lines, i + 1, FALSE, FALSE)
        ELSE IF _is_chorus_marker(paired_lines[i][1], paired_lines[i][2])
        THEN TypesFrom(paired_lines, i + 1, has_line, TRUE)
        ELSE TypesFrom(paired_lines, i + 1, TRUE, has_marker)

\* C21: a sentinel on either side closes the section in progress if it has
\* lines and resets the type to verse: an emitted section is a chorus if and
\* only if a marker pair stands between the sentinel pair (or the start of
\* the input) before it and the place where it is closed, a verse otherwise.
C21_SectionTypes ==
    pc = "structured" =>
        [k \in 1..Len(sections) |-> sections[k].section_type] =
            TypesFrom(PairLines(hawaiian_lines, english_lines), 1, FALSE, FALSE)

\* a chorus whose marker comes after its first line, closed by a sentinel,
\* then a verse
C21_Witness ==
    /\ pc = "structured"
    /\ Len(sections) = 2
    /\ sections[1].section_type = "chorus"
    /\ sections[2].section_type = "verse"
    /\ Len(hawaiian_lines) >= 2
    /\ hawaiian_lines[2] = <<"Hui:">>

----------------------------------------------------------------------------
(* Properties of the extracted lines *)

\* C22: a segment that is only whitespace once its tags are stripped and its
\* entities decoded is treated as empty: no extracted line is made of
\* whitespace alone.
C22_WhitespaceIsEmpty ==
    pc = "extracted" =>
        \A i \in 1..Len(processed_lines) : Strip(processed_lines[i]) # <<>>

----------------------------------------------------------------------------
(* Properties of the validation of a parsed file *)

\* the positions of the issues of a type in a result
IssuesOfType(r, type) ==
    {i \in 1..Len(r.validation_issues) :
        r.validation_issues[i].issue_type = type}

\* C23: when the song has at least one Hawaiian line and no English text at
\* all, the validation result of parse_file holds exactly one
\* missing_translation issue, of severity medium.
C23_MissingTranslation ==
    ( /\ pc = "returned"
      /\ ExtractedEnglish = <<>>
      /\ \E i \in 1..Len(AllLines(sections)) :
            AllLines(sections)[i].hawaiian_text # <<>> )
    => /\ Cardinality(IssuesOfType(result, "missing_translation")) = 1
       /\ \A i \in IssuesOfType(result, "missing_translation") :
              result.validation_issues[i].severity = "medium"

----------------------------------------------------------------------------
(* Properties of a validator over several songs *)

\* the number of validate_song calls made on the validator and ended
CallsMade == Len(history) + (IF pc \in {"returned", "raised"} THEN 1 ELSE 0)

\* C24: every validate_song call appends exactly one result to
\* validation_results, in call order, and leaves the earlier entries as they
\* were: total_songs_processed of generate_report is the number of
\* validate_song calls made on the validator.
C24_Accumulation ==
    /\ generate_report(validation_results).total_songs_processed = CallsMade
    /\ \A i \in 1..Len(history) :
          i <= Len(validation_results)
              => validation_results[i] = history[i].result

----------------------------------------------------------------------------
(* Properties of the form parser *)

\* the line fields of the submitted form, as records
SubmittedLines ==
    {x \in [id : FormVerseIds, n : {"1", "2"},
            lang : {"hawaiian", "english"}, value : {<<"A">>, <<"B">>}] :
        \E i \in 1..Len(form.form_data) :
            form.form_data[i] = <<LineFieldName(x.id, x.n, x.lang), x.value>>}

\* the text of one language of a line
TextOf(line, lang) ==
    IF lang = "hawaiian" THEN line.hawaiian_text ELSE line.english_text

\* C25: every field verse_<ID>_line_<N>_<lang> of the form is stored as that
\* language's text of line N of the verse whose id is <ID>, also for ids of
\* the form v1_1.
C25_FormParsing ==
    pc = "parsed" =>
        \A x \in SubmittedLines :
            \E i \in 1..Len(form.verses) :
                /\ <<form.verses[i].id>> = x.id
                /\ \E k \in 1..Len(form.verses[i].lines) :
                      /\ form.verses[i].lines[k].line_number = IntOf(x.n)
                      /\ TextOf(form.verses[i].lines[k], x.lang) = x.value

----------------------------------------------------------------------------
(* Properties of the review flag of validate_song *)

\* the three conditions of a record that call for a review
NeedsReview(data) ==
    \/ Strip(Get(data, "composer", <<>>)) = <<>>
    \/ Len(Get(data, "hawaiian_lines", <<>>))
           # Len(Get(data, "english_lines", <<>>))
    \/ Get(data, "stray_text", <<>>) # <<>>

\* C26: the result validate_song returns has manual_review_required true
\* exactly when the composer is missing, or the Hawaiian and English line
\* counts differ, or stray text is non-empty; without a high issue and
\* without stray text there are at most 4 issues, costing at most 27 points,
\* and a missing_translation issue comes with a line_count_mismatch.
C26_ReviewTriggers ==
    ( pc = "returned" /\ validation_results # <<>> )
    => /\ result.manual_review_required <=> NeedsReview(song_data)
       /\ ~NeedsReview(song_data)
          => /\ Len(result.validation_issues) <= 4
             /\ result.data_quality_score >= 100 - 27
       /\ IssuesOfType(result, "missing_translation") # {}
          => Mismatches(result) # {}

\* C26 witness: four issues and none of them high, no stray text, score 73,
\* no review asked for
C26_Witness ==
    /\ pc = "returned"
    /\ validation_results # <<>>
    /\ Len(result.validation_issues) = 4
    /\ result.data_quality_score = 73
    /\ result.stray_text = <<>>
    /\ ~result.manual_review_required

----------------------------------------------------------------------------
(* Properties of the DatabaseValidator *)

\* C27: validate_and_store_song called while no validation session is
\* active fails with an error and leaves all state unchanged: no
\* song_validations or validation_issues row is written and the in-memory
\* validation_results list is the same as before the call.
C27_NoSessionNoChange ==
    [][ ( /\ db'.calls = db.calls + 1
          /\ db'.call = "validate_and_store_song"
          /\ db.current_session_id = 0 )
        => ( /\ db'.outcome = "raised"
             /\ db'.song_validations = db.song_validations
             /\ db'.validation_issues = db.validation_issues
             /\ validation_results' = validation_results ) ]_vars

\* the sessions of the table that have status 'running'
RunningSessions ==
    {i \in 1..Len(db.validation_sessions) :
        db.validation_sessions[i].status = "running"}

\* C28: at most one session started by the validator has status 'running'
\* at any time, so none is left running once a later one has been started.
C28_OneRunningSession ==
    Cardinality(RunningSessions) <= 1

----------------------------------------------------------------------------
(* Properties of the admin sessions *)

\* C29: validate_session accepts a token if and only if a successful login
\* issued it, it has not been logged out, and no gap between its issue and
\* first use or between two consecutive accepted uses exceeds 2 hours; a
\* token rejected for expiry or removed by logout is deleted from sessions.
C29_SessionLifecycle ==
    /\ admin.call = "validate_session"
       => ( admin.answer
            <=> /\ admin.token \in 1..Len(admin.last_use)
                /\ admin.token \notin admin.logged_out
                /\ admin.token \notin admin.long_gap )
    /\ \A token \in admin.expired \cup admin.logged_out :
           token \notin DOMAIN admin.sessions

\* C29 witness: a token issued at hour 0 is accepted at hour 4, more than
\* 2 hours after its issue, each use having come within 2 hours of the last,
\* while the other token has been rejected for expiry
C29_Witness ==
    /\ admin.call = "validate_session"
    /\ admin.answer
    /\ admin.now = 4
    /\ admin.sessions[admin.token].created_at = 0
    /\ admin.expired # {}

----------------------------------------------------------------------------
(* Properties of the saved verses *)

\* the verses of the source's verses_json, as <<verse id, lines>>
JsonVerses ==
    IF songs.verses_json.null THEN <<>>
    ELSE [i \in 1..Len(songs.verses_json.verses) |->
             <<songs.verses_json.verses[i].id,
               [k \in 1..Len(songs.verses_json.verses[i].lines) |->
                   <<songs.verses_json.verses[i].lines[k].line_number,
                     songs.verses_json.verses[i].lines[k].hawaiian_text,
                     songs.verses_json.verses[i].lines[k].english_text>>]>>]

\* the lines of one Verses row, as they stand in VerseLines
TableLines(verse) ==
    LET rows == SelectSeq(songs.VerseLines, LAMBDA l : l.verse_id = verse.id)
    IN  [k \in 1..Len(rows) |->
            <<rows[k].line_number, rows[k].hawaiian_text, rows[k].english_text>>]

\* the verses of the source in the Verses and VerseLines tables
TableVerses ==
    LET rows == SelectSeq(songs.Verses, LAMBDA v : v.mele_source_id = 1)
    IN  [i \in 1..Len(rows) |-> <<rows[i].verse_id, TableLines(rows[i])>>]

\* C30: after every successful save of a song that has a source record, the
\* verses and lines in the Verses/VerseLines tables of the source are the
\* verses held in its verses_json, also when the submitted song has no verses.
C30_TablesMatchJson ==
    ( songs.outcome = "success" /\ songs.source )
    => TableVerses = JsonVerses

============================================================================
